---- MODULE Spec2Model ----
(***************************************************************************)
(* Model of the balder resolver core:                                      *)
(*   - ConnectionMetadata            (_balder/connection_metadata.py)      *)
(*   - NormalScenarioSetupController (validate_inheritance and helpers)    *)
(*   - FeatureController             (get_method_variation,                *)
(*                                    validate_inner_vdevice_inheritance)  *)
(* Every part has its own variables and its own specification; the         *)
(* variables of the other parts stay at their initial value.               *)
(***************************************************************************)
EXTENDS Integers, Sequences, FiniteSets, TLC

VARIABLES
    md,        \* a ConnectionMetadata object under construction and modification
    mlast,     \* the last constructor / setter call on md and its outcome
    pair,      \* two ConnectionMetadata objects that are compared with each other
    clast,     \* the last comparison of the two and its result
    classes,   \* the Setup classes loaded so far, in the order of their definition
    vlast,     \* the last validate_inheritance call and its outcome
    features,  \* the Feature classes with method variations, in the order of their definition
    flast,     \* the last get_method_variation call and its outcome
    vfeatures, \* the Feature classes with inner VDevices, in the order of their definition
    vdlast,    \* the last validate_inner_vdevice_inheritance call and its outcome
    alast,     \* the last get_all_abs_inner_device_classes call and its outcome
    inst,      \* the feature instances of the devices, by device and property name
    vreq,      \* the feature instances of the mapped VDevices, by VDevice and property name
    elast,     \* the last check_vdevice_feature_existence call and its outcome
    device_cnns, \* the connections between the devices, in the order of their definition
    tlast,     \* the last call that collects the connections of a class and its outcome
    items,     \* FeatureController._items: the controller of every feature class that has one
    created,   \* the number of FeatureController objects created so far
    requested, \* the arguments of the get_for calls made so far
    glast,     \* the last FeatureController.get_for call and its outcome
    pinned,    \* a get_method_variation call made earlier and its outcome, once it is noted
    ilast,     \* the last call that lists the inner VDevice classes of a feature and its result
    eloop,     \* the elimination loop of a get_method_variation call: its candidates, its position and its outcome
    race,      \* the callers that run get_for at the same time, each with its position and its local variable
    cov        \* the _covered_by attribute of a scenario class, and the last get_covered_by_dict call with its outcome

metaVars == <<md, mlast>>
compareVars == <<pair, clast>>
inhVars == <<classes, vlast>>
methVars == <<features, flast>>
vdevVars == <<vfeatures, vdlast>>
absVars == <<alast>>
existVars == <<inst, vreq, elast>>
topoVars == <<device_cnns, tlast>>
cacheVars == <<items, created, requested, glast>>
detVars == <<pinned>>
innerVars == <<ilast>>
elimVars == <<eloop>>
raceVars == <<race>>
coveredVars == <<cov>>
exceptMeta == <<compareVars, inhVars, methVars, vdevVars, absVars, existVars, topoVars, cacheVars, detVars, innerVars, elimVars, raceVars, coveredVars>>
exceptCompare == <<metaVars, inhVars, methVars, vdevVars, absVars, existVars, topoVars, cacheVars, detVars, innerVars, elimVars, raceVars, coveredVars>>
exceptInh == <<metaVars, compareVars, methVars, vdevVars, absVars, existVars, topoVars, cacheVars, detVars, innerVars, elimVars, raceVars, coveredVars>>
exceptMeth == <<metaVars, compareVars, inhVars, vdevVars, absVars, existVars, topoVars, cacheVars, detVars, innerVars, elimVars, raceVars, coveredVars>>
exceptVDev == <<metaVars, compareVars, inhVars, methVars, absVars, existVars, topoVars, cacheVars, detVars, innerVars, elimVars, raceVars, coveredVars>>
exceptAbs == <<metaVars, compareVars, methVars, vdevVars, existVars, topoVars, cacheVars, detVars, innerVars, elimVars, raceVars, coveredVars>>
exceptExist == <<metaVars, compareVars, methVars, vdevVars, absVars, topoVars, cacheVars, detVars, innerVars, elimVars, raceVars, coveredVars>>
exceptTopo == <<metaVars, compareVars, methVars, vdevVars, absVars, existVars, cacheVars, detVars, innerVars, elimVars, raceVars, coveredVars>>
exceptCache == <<metaVars, compareVars, inhVars, methVars, vdevVars, absVars, existVars, topoVars, detVars, innerVars, elimVars, raceVars, coveredVars>>
exceptDet == <<metaVars, compareVars, inhVars, vdevVars, absVars, existVars, topoVars, innerVars, elimVars, raceVars, coveredVars>>
exceptInner == <<metaVars, compareVars, inhVars, methVars, absVars, existVars, topoVars, cacheVars, detVars, elimVars, raceVars, coveredVars>>
exceptElim == <<metaVars, compareVars, inhVars, methVars, vdevVars, absVars, existVars, topoVars, cacheVars, detVars, innerVars, raceVars, coveredVars>>
exceptRace == <<metaVars, compareVars, inhVars, methVars, vdevVars, absVars, existVars, topoVars, detVars, innerVars, elimVars, coveredVars>>
exceptCovered == <<metaVars, compareVars, inhVars, methVars, vdevVars, absVars, existVars, topoVars, cacheVars, detVars, innerVars, elimVars, raceVars>>
vars == <<md, mlast, pair, clast, classes, vlast, features, flast, vfeatures, vdlast, alast,
          inst, vreq, elast, device_cnns, tlast, items, created, requested, glast, pinned, ilast, eloop, race, cov>>

(***************************************************************************)
(* Bounds                                                                  *)
(***************************************************************************)
NumDevices == 2
NumNodes == 2
MaxClasses == 3
NumDeviceNames == 2
MaxDeviceBases == 2
MaxFeatures == 3
MaxVariations == 2
NumVDevices == 2
MaxVDeviceClasses == 4
MaxVDeviceBases == 1
MaxSetupLevels == 2
MaxInstances == 2
NumMappedVDevices == 1
MaxConnections == 2

(***************************************************************************)
(* ConnectionMetadata                                                      *)
(***************************************************************************)
None == <<"None">>
\* a class that is no subclass of Device, and a node name that is no str
NoDeviceType == <<"type", "object">>
NoString == <<"int", 5>>

Devices == {<<"Device", i>> : i \in 1..NumDevices}
Nodes == {<<"node", i>> : i \in 1..NumNodes}

DeviceArgs == Devices \cup {None, NoDeviceType}
NodeArgs == Nodes \cup {None, NoString}

\* the fields of a ConnectionMetadata object
Metadata == [from_device : Devices \cup {None}, from_node_name : Nodes \cup {None},
             to_device : Devices \cup {None}, to_node_name : Nodes \cup {None},
             bidirectional : BOOLEAN]

\* ConnectionMetadata(): no endpoints, bidirectional
EmptyMetadata == [from_device |-> None, from_node_name |-> None,
                  to_device |-> None, to_node_name |-> None, bidirectional |-> TRUE]

\* takes metadata without endpoints for incomparable
check_same_with_endpoints(self, other) ==
    /\ self.from_device # None
    /\ self.from_device = other.from_device
    /\ self.from_node_name = other.from_node_name
    /\ self.to_device = other.to_device
    /\ self.to_node_name = other.to_node_name

check_same(self, other) ==
    /\ self.from_device = other.from_device
    /\ self.from_node_name = other.from_node_name
    /\ self.to_device = other.to_device
    /\ self.to_node_name = other.to_node_name

\* never sees swapped endpoints
check_twisted_never(self, other) == FALSE

check_twisted(self, other) ==
    /\ self.from_device = other.to_device
    /\ self.from_node_name = other.to_node_name
    /\ self.to_device = other.from_device
    /\ self.to_node_name = other.from_node_name

\* forgets the swapped endpoints
compare_mixed_same_only(self, other) ==
    check_same(self, other)

\* accepts a unidirectional self in a bidirectional other, not the reverse
compare_mixed_unidirectional_in_bidirectional(self, other) ==
    (~self.bidirectional /\ other.bidirectional)
        /\ (check_same(self, other) \/ check_twisted(self, other))

\* the branch of __compare_with for one unidirectional and one bidirectional side
compare_mixed(self, other) ==
    check_same(self, other) \/ check_twisted(self, other)

compare_with(self, other, allow_single_unidirectional_for_both_directions) ==
    IF self.bidirectional /\ other.bidirectional
    THEN check_same(self, other) \/ check_twisted(self, other)
    ELSE IF ~self.bidirectional /\ ~other.bidirectional
    THEN check_same(self, other)
    ELSE IF allow_single_unidirectional_for_both_directions
    THEN IF (self.bidirectional /\ ~other.bidirectional)
            \/ (~self.bidirectional /\ other.bidirectional)
         THEN compare_mixed(self, other)
         ELSE FALSE
    ELSE FALSE

equal_with(self, other) == compare_with(self, other, FALSE)

contained_in(self, other) == compare_with(self, other, TRUE)

\* set_from / set_to: the fields after the call and whether it raised.  The
\* device is stored before the node name is looked at, so a TypeError for the
\* node name leaves the new device in place.
set_from(self, device, node) ==
    IF device = NoDeviceType
    THEN [obj |-> self, res |-> "TypeError"]
    ELSE IF node = NoString
    THEN [obj |-> [self EXCEPT !.from_device = device], res |-> "TypeError"]
    ELSE [obj |-> [self EXCEPT !.from_device = device, !.from_node_name = node],
          res |-> "ok"]

set_to(self, device, node) ==
    IF device = NoDeviceType
    THEN [obj |-> self, res |-> "TypeError"]
    ELSE IF node = NoString
    THEN [obj |-> [self EXCEPT !.to_device = device], res |-> "TypeError"]
    ELSE [obj |-> [self EXCEPT !.to_device = device, !.to_node_name = node],
          res |-> "ok"]

\* looks at the two devices only
all_or_none_given_devices_only(from_device, to_device, from_node, to_node) ==
    \/ (from_device = None /\ to_device = None)
    \/ (from_device # None /\ to_device # None)

\* the constructor's test on its four identity arguments
all_or_none_given(from_device, to_device, from_node, to_node) ==
    \/ (from_device = None /\ to_device = None /\ from_node = None /\ to_node = None)
    \/ (from_device # None /\ to_device # None /\ from_node # None /\ to_node # None)

\* __init__: the object it yields, or the error it raises (then there is no object)
init_metadata(from_device, to_device, from_node, to_node, bidirectional) ==
    LET s1 == set_from(EmptyMetadata, from_device, from_node)
        s2 == set_to(s1.obj, to_device, to_node)
    IN  IF s1.res # "ok" THEN [res |-> s1.res]
        ELSE IF s2.res # "ok" THEN [res |-> s2.res]
        ELSE IF ~all_or_none_given(from_device, to_device, from_node, to_node)
        THEN [res |-> "ValueError"]
        ELSE [res |-> "ok", obj |-> [s2.obj EXCEPT !.bidirectional = bidirectional]]

\* how many of the arguments are not None
Given(args) == Cardinality({i \in DOMAIN args : args[i] # None})

\* present: all four identity fields set; absent: none of them set
AllPresent(m) ==
    m.from_device # None /\ m.from_node_name # None /\ m.to_device # None /\ m.to_node_name # None
AllAbsent(m) ==
    m.from_device = None /\ m.from_node_name = None /\ m.to_device = None /\ m.to_node_name = None

NoValidation == [cls |-> 0, res |-> "none", kind |-> "none", dev |-> None, parent |-> None]
InhIdle == classes = <<>> /\ vlast = NoValidation
NoResolution == [cls |-> 0, for_vdevice |-> 0,
                 with_connection |-> [kinds |-> {}, metadata |-> EmptyMetadata],
                 ignore_no_findings |-> FALSE, res |-> "none", why |-> "none", impl |-> <<0, 0>>]
MethIdle == features = <<>> /\ flast = NoResolution
NoVDeviceValidation == [cls |-> 0, res |-> "none", kind |-> "none", feature |-> 0, of |-> <<0, 0>>]
VDevIdle == vfeatures = <<>> /\ vdlast = NoVDeviceValidation
NoAbsCall == [cls |-> 0, res |-> "none", val |-> <<>>]
AbsIdle == alast = NoAbsCall

\* the property names under which a device or a VDevice holds feature instances
PropertyNames == {"feat", "feat2"}
\* the devices of the setup classes: <<class, device name>>
SetupDevices == (1..MaxSetupLevels) \X (1..NumDeviceNames)
MappedVDevices == 1..NumMappedVDevices
\* a device holds no feature under a property name, or an instance of a feature
\* class with its active VDevice mapping (vdevice 0: no active VDevice)
NoInstance == [present |-> FALSE, cls |-> "FeatureI", vdevice |-> 0, device |-> <<0, 0>>]
Instance(cls, vdevice, device) ==
    [present |-> TRUE, cls |-> cls, vdevice |-> vdevice, device |-> device]
NoProperties == [a \in {} |-> "FeatureI"]
NoExistenceCheck == [cls |-> 0, res |-> "none", device |-> <<0, 0>>, vdevice |-> 0,
                     feature |-> "none"]
ExistIdle ==
    /\ inst = [d \in SetupDevices |-> [a \in PropertyNames |-> NoInstance]]
    /\ vreq = [v \in MappedVDevices |-> NoProperties]
    /\ elast = NoExistenceCheck

NoTopologyCall == [op |-> "none", cls |-> 0, res |-> "none", val |-> <<>>]
TopoIdle == device_cnns = <<>> /\ tlast = NoTopologyCall

NoLookup == [related_cls |-> <<"none", 0>>, res |-> "none", ret |-> 0]
CacheIdle == items = <<>> /\ created = 0 /\ requested = {} /\ glast = NoLookup
NoNote == [call |-> NoResolution, followed |-> FALSE, reordered |-> 0]
DetIdle == pinned = NoNote
InnerIdle == ilast = [op |-> "none", cls |-> 0, val |-> <<>>]
ElimIdle == eloop = [pc |-> "idle", variations |-> <<>>, n |-> 0, length_before |-> 0, passes |-> 0, out |-> [res |-> "none", why |-> "none", impl |-> <<0, 0>>]]
RaceIdle == race = [caller |-> <<>>, overlapped |-> FALSE]
CoveredIdle == cov = [has |-> FALSE, covered_by |-> <<>>, res |-> "none", val |-> <<>>]
\* mlast.given: how many of the four identity arguments a call was given
NoMetaCall == [op |-> "none", given |-> 0, res |-> "none"]
NoCall == [op |-> "none", res |-> "none"]

MetaIdle == md = EmptyMetadata /\ mlast = NoMetaCall
CompareIdle == pair = [self |-> EmptyMetadata, other |-> EmptyMetadata] /\ clast = NoCall

(***************************************************************************)
(* Life cycle of one ConnectionMetadata object: md = ConnectionMetadata()  *)
(* at first, then constructor calls that rebind md and setter calls.       *)
(***************************************************************************)
InitMeta ==
    /\ MetaIdle
    /\ CompareIdle
    /\ InhIdle
    /\ MethIdle
    /\ VDevIdle
    /\ AbsIdle
    /\ ExistIdle
    /\ TopoIdle
    /\ CacheIdle
    /\ DetIdle
    /\ InnerIdle
    /\ ElimIdle
    /\ RaceIdle
    /\ CoveredIdle

\* md = ConnectionMetadata(...): on an error there is no new object
MetaConstruct(from_device, to_device, from_node, to_node, bidirectional) ==
    LET r == init_metadata(from_device, to_device, from_node, to_node, bidirectional)
    IN  /\ md' = IF r.res = "ok" THEN r.obj ELSE md
        /\ mlast' = [op |-> "init", res |-> r.res,
                     given |-> Given(<<from_device, to_device, from_node, to_node>>)]
        /\ UNCHANGED exceptMeta

MetaSetFrom(device, node) ==
    LET r == set_from(md, device, node)
    IN  /\ md' = r.obj
        /\ mlast' = [op |-> "set_from", given |-> Given(<<device, node>>), res |-> r.res]
        /\ UNCHANGED exceptMeta

MetaSetTo(device, node) ==
    LET r == set_to(md, device, node)
    IN  /\ md' = r.obj
        /\ mlast' = [op |-> "set_to", given |-> Given(<<device, node>>), res |-> r.res]
        /\ UNCHANGED exceptMeta

NextMeta ==
    \/ \E fd \in DeviceArgs, td \in DeviceArgs, fn \in NodeArgs,
          tn \in NodeArgs, bd \in BOOLEAN : MetaConstruct(fd, td, fn, tn, bd)
    \/ \E d \in DeviceArgs, n \in NodeArgs : MetaSetFrom(d, n)
    \/ \E d \in DeviceArgs, n \in NodeArgs : MetaSetTo(d, n)

SpecMeta == InitMeta /\ [][NextMeta]_vars

(***************************************************************************)
(* Comparison of two ConnectionMetadata objects, self and other.  The two  *)
(* objects are any two values md can take in SpecMeta (which may be the    *)
(* same value); the actions apply self.equal_with(other) and               *)
(* self.contained_in(other) to them.                                        *)
(***************************************************************************)
BoolStr(b) == IF b THEN "True" ELSE "False"

InitCompare ==
    /\ MetaIdle
    /\ pair \in [self : Metadata, other : Metadata]
    /\ clast = NoCall
    /\ InhIdle
    /\ MethIdle
    /\ VDevIdle
    /\ AbsIdle
    /\ ExistIdle
    /\ TopoIdle
    /\ CacheIdle
    /\ DetIdle
    /\ InnerIdle
    /\ ElimIdle
    /\ RaceIdle
    /\ CoveredIdle

\* pair.self.equal_with(pair.other)
MetaEqualWith ==
    /\ clast' = [op |-> "equal_with", res |-> BoolStr(equal_with(pair.self, pair.other))]
    /\ UNCHANGED <<pair, exceptCompare>>

\* pair.self.contained_in(pair.other)
MetaContainedIn ==
    /\ clast' = [op |-> "contained_in", res |-> BoolStr(contained_in(pair.self, pair.other))]
    /\ UNCHANGED <<pair, exceptCompare>>

NextCompare ==
    \/ MetaEqualWith
    \/ MetaContainedIn

SpecCompare == InitCompare /\ [][NextCompare]_vars

(***************************************************************************)
(* Claims about ConnectionMetadata                                         *)
(***************************************************************************)
ContainedInHolds == clast.op = "contained_in" /\ clast.res = "True"

\* the metadata a constructor call can yield
Constructed == {m \in Metadata : AllPresent(m) \/ AllAbsent(m)}

\* C1 (as stated): contained_in is transitive - whenever a.contained_in(b)
\* returned True, every metadata c with b.contained_in(c) has a.contained_in(c)
\* (stated for the metadata the constructor yields).
C1_ContainedInTransitive ==
    (ContainedInHolds /\ pair.self \in Constructed /\ pair.other \in Constructed) =>
        \A c \in Constructed :
            contained_in(pair.other, c) => contained_in(pair.self, c)

\* C1 (amended): contained_in is transitive except over a bidirectional middle
\* between two unidirectional metadata: if a.contained_in(b) and
\* b.contained_in(c), then a.contained_in(c), unless a and c are unidirectional
\* and b is bidirectional; in that case a.contained_in(c) holds exactly when a
\* and c have the same endpoints in the same order.
C1_ContainedInTransitiveButMixedMiddle ==
    ContainedInHolds =>
        \A c \in Metadata :
            LET a == pair.self
                b == pair.other
            IN  contained_in(b, c) =>
                    IF ~a.bidirectional /\ b.bidirectional /\ ~c.bidirectional
                    THEN contained_in(a, c) <=> check_same(a, c)
                    ELSE contained_in(a, c)

\* a unidirectional a was found contained in a bidirectional b with endpoints,
\* and b is contained in the unidirectional metadata of the opposite direction
C1_Witness ==
    /\ ContainedInHolds
    /\ ~pair.self.bidirectional /\ pair.other.bidirectional
    /\ AllPresent(pair.self)
    /\ pair.self.from_device # pair.self.to_device
    /\ \E c \in Metadata :
            ~c.bidirectional /\ check_twisted(pair.self, c) /\ contained_in(pair.other, c)

\* a bidirectional and a unidirectional metadata with the same endpoints, all present
SameEndpointsBidiUni(b, u) ==
    b.bidirectional /\ ~u.bidirectional /\ AllPresent(b) /\ check_same(b, u)

\* C2 (as stated): for a bidirectional B and the unidirectional U with the same
\* endpoints, U.contained_in(B) is True and B.contained_in(U) is False.
C2_ContainmentOneWay ==
    clast.op = "contained_in" =>
        /\ SameEndpointsBidiUni(pair.other, pair.self) => clast.res = "True"
        /\ SameEndpointsBidiUni(pair.self, pair.other) => clast.res = "False"

\* C2 (amended): for a bidirectional B and the unidirectional U with the same
\* endpoints, U.contained_in(B) is True and B.contained_in(U) is True as well:
\* contained_in does not tell the two sides apart.  Only equal_with separates
\* them: B.equal_with(U) and U.equal_with(B) are False.
C2_ContainmentBothWays ==
    /\ clast.op = "contained_in" =>
        /\ SameEndpointsBidiUni(pair.other, pair.self) => clast.res = "True"
        /\ SameEndpointsBidiUni(pair.self, pair.other) => clast.res = "True"
    /\ clast.op = "equal_with" =>
        /\ SameEndpointsBidiUni(pair.other, pair.self) => clast.res = "False"
        /\ SameEndpointsBidiUni(pair.self, pair.other) => clast.res = "False"

\* B.contained_in(U) was called for such a pair and returned True
C2_Witness ==
    /\ ContainedInHolds
    /\ SameEndpointsBidiUni(pair.self, pair.other)
    /\ pair.self.from_device # pair.self.to_device

AllOrNone(m) == AllPresent(m) \/ AllAbsent(m)

\* C3 (as stated): in every reachable state of the object, also after set_from
\* and set_to calls, the four identity fields are all present or all absent.
C3_AllOrNoneAlways == AllOrNone(md)

\* C3 (amended): the object a successful constructor call yields has its four
\* identity fields all present or all absent, and a constructor call that is
\* given some but not all of them raises (ValueError, or TypeError for an
\* ill-typed argument) and yields no object.  set_from and set_to write their
\* own side without a check, so after them the fields may be partly present.
C3_AllOrNoneAfterConstruction ==
    /\ [](mlast.op = "init" =>
            /\ mlast.res = "ok" => AllOrNone(md)
            /\ mlast.given \in 1..3 => mlast.res \in {"ValueError", "TypeError"})
    /\ [][mlast'.op = "init" /\ mlast'.res # "ok" => md' = md]_vars

\* a constructor call with only a part of the identity arguments has failed
\* with ValueError while md holds an object with endpoints
C3_Witness ==
    mlast.op = "init" /\ mlast.given \in 1..3 /\ mlast.res = "ValueError" /\ AllPresent(md)

(***************************************************************************)
(* Setup classes and their inner devices (the same holds for Scenario      *)
(* classes).  A class is known by its position in `classes`; Root is the   *)
(* type Setup itself.  A device is <<class, name>>: the inner class with   *)
(* that name defined in the body of that class.                            *)
(***************************************************************************)
Root == 0
\* what a class body holds under a device name: no device class, or a device
\* class with the given device classes as bases
Absent == [present |-> FALSE, bases |-> {}]
InnerDevice(B) == [present |-> TRUE, bases |-> B]
DeviceNames == 1..NumDeviceNames
ClassIds == 1..MaxClasses

Loaded == 1..Len(classes)

\* the devices defined in the class bodies loaded so far
DeclaredDevices ==
    {d \in Loaded \X DeviceNames : classes[d[1]].devs[d[2]].present}

\* the device classes a device class names as its bases
DeviceBases(d) == classes[d[1]].devs[d[2]].bases

\* issubclass(d, e) for two device classes
RECURSIVE IsSubDevice(_, _)
IsSubDevice(d, e) ==
    \/ d = e
    \/ \E b \in DeviceBases(d) : IsSubDevice(b, e)

\* issubclass(c, a) for two Setup classes (Root included)
RECURSIVE IsSubSetup(_, _)
IsSubSetup(c, a) ==
    \/ c = a
    \/ a = Root
    \/ (c # Root /\ \E i \in DOMAIN classes[c].bases : IsSubSetup(classes[c].bases[i], a))

\* the members of a set of numbers, in ascending order, as a sequence
RECURSIVE SortedSeq(_)
SortedSeq(S) ==
    IF S = {} THEN <<>>
    ELSE LET m == CHOOSE x \in S : \A y \in S : x <= y
         IN  <<m>> \o SortedSeq(S \ {m})

\* get_all_inner_device_classes: the devices whose __qualname__ starts with the
\* name of the class, in the order of inspect.getmembers (by name)
get_all_inner_device_classes(c) ==
    LET names == SortedSeq({n \in DeviceNames : classes[c].devs[n].present})
    IN  [i \in DOMAIN names |-> <<c, names[i]>>]

Ok(v) == [res |-> "ok", val |-> v]
Raise(err) == [res |-> err, val |-> <<>>]

\* the devices of the parent are not looked up
get_all_abs_inner_device_classes_local(c) == Ok(get_all_inner_device_classes(c))

\* the bases that are Setup classes: every base of the model is one
SetupBases(c) == classes[c].bases

\* get_all_abs_inner_device_classes
RECURSIVE get_all_abs_inner_device_classes(_)
get_all_abs_inner_device_classes(c) ==
    LET cls_devices == get_all_inner_device_classes(c)
    IN  IF Len(cls_devices) = 0
        THEN IF Len(SetupBases(c)) > 1 THEN Raise("MultiInheritanceError")
             ELSE IF SetupBases(c)[1] = Root THEN Ok(<<>>)
             ELSE get_all_abs_inner_device_classes(SetupBases(c)[1])
        ELSE Ok(cls_devices)

SeqToSet(q) == {q[i] : i \in DOMAIN q}

Outcome(res, kind, dev, parent) == [res |-> res, kind |-> kind, dev |-> dev, parent |-> parent]
Passed == Outcome("ok", "none", None, None)

\* lines 186-203: the test of one device against the parent device of its
\* name (naming) and the parent device it is a subclass of (inheritance)
check_name_and_base(cur_item_device, naming, inheritance) ==
    IF naming = inheritance /\ inheritance # None THEN Passed
    ELSE IF naming = None /\ inheritance = None THEN Passed
    ELSE IF naming = None
    THEN Outcome("DeviceOverwritingError", "should_have_same_name", cur_item_device, inheritance)
    ELSE IF inheritance = None
    THEN Outcome("DeviceOverwritingError", "should_inherit", cur_item_device, naming)
    ELSE Passed

\* lines 166-203 for one device of the class
check_device(cur_item_device, abs_parent_devices) ==
    LET parents == SeqToSet(abs_parent_devices)
        naming == IF \E p \in parents : p[2] = cur_item_device[2]
                  THEN CHOOSE p \in parents : p[2] = cur_item_device[2]
                  ELSE None
        bases == {p \in parents : IsSubDevice(cur_item_device, p)}
    IN  IF Cardinality(bases) > 1
        THEN Outcome("MultiInheritanceError", "device", cur_item_device, None)
        ELSE check_name_and_base(cur_item_device, naming,
                                 IF bases = {} THEN None ELSE CHOOSE p \in bases : TRUE)

\* the outcome of the first member of a sequence of outcomes that is an error
RECURSIVE FirstError(_)
FirstError(q) ==
    IF q = <<>> THEN Passed
    ELSE IF Head(q).res # "ok" THEN Head(q)
    ELSE FirstError(Tail(q))

\* a parent device without a device of the class is accepted
check_covered_accepted(c, cur_parent, devices) == Passed

\* lines 205-215 for one parent device
check_covered(c, cur_parent, devices) ==
    IF \E i \in DOMAIN devices : IsSubDevice(devices[i], cur_parent)
    THEN Passed
    ELSE Outcome("DeviceOverwritingError", "not_implemented", cur_parent, c)

\* a second Setup base is not noticed
multiple_parents_ignored(c) == FALSE

\* lines 141-150: a second base that is a Scenario/Setup class
multiple_parents(c) == Len(SetupBases(c)) > 1

\* validate_inheritance
RECURSIVE validate_inheritance(_)
\* line 218: the parent class is validated last
validate_parent(parent) == validate_inheritance(parent)

validate_inheritance(c) ==
    IF multiple_parents(c) THEN Outcome("MultiInheritanceError", "class", None, c)
    ELSE LET parent == SetupBases(c)[1] IN
    IF parent = Root THEN Passed
    ELSE LET devices == get_all_inner_device_classes(c)
             abs_parent == get_all_abs_inner_device_classes(parent)
    IN  IF abs_parent.res # "ok" THEN Outcome(abs_parent.res, "class", None, parent)
        ELSE IF Len(devices) = 0 THEN Passed
        ELSE LET abs_parent_devices == abs_parent.val
                 named == FirstError([i \in DOMAIN devices |->
                                         check_device(devices[i], abs_parent_devices)])
                 covered == FirstError([i \in DOMAIN abs_parent_devices |->
                                         check_covered(c, abs_parent_devices[i], devices)])
             IN  IF named.res # "ok" THEN named
                 ELSE IF covered.res # "ok" THEN covered
                 ELSE validate_parent(parent)

\* the base lists Python accepts for the next class: one or two Setup classes,
\* no base twice and no base before one of its own subclasses
LegalBases ==
    {<<p>> : p \in {Root} \cup Loaded}
      \cup {b \in Loaded \X ({Root} \cup Loaded) : ~IsSubSetup(b[2], b[1])}

\* the bodies the next class can have: every name is free or an inner device
\* class with up to MaxDeviceBases device classes of the loaded classes as bases
LegalBodies ==
    [DeviceNames -> {Absent} \cup {InnerDevice(B) : B \in {D \in SUBSET DeclaredDevices :
                                                              Cardinality(D) <= MaxDeviceBases}}]

InitInh ==
    /\ MetaIdle
    /\ CompareIdle
    /\ InhIdle
    /\ MethIdle
    /\ VDevIdle
    /\ AbsIdle
    /\ ExistIdle
    /\ TopoIdle
    /\ CacheIdle
    /\ DetIdle
    /\ InnerIdle
    /\ ElimIdle
    /\ RaceIdle
    /\ CoveredIdle

\* the collector loads the next class definition
LoadClass(bases, devs) ==
    /\ Len(classes) < MaxClasses
    /\ classes' = Append(classes, [bases |-> bases, devs |-> devs])
    /\ UNCHANGED <<vlast, exceptInh>>

\* get_for(c).validate_inheritance()
ValidateInheritance(c) ==
    /\ vlast' = [cls |-> c] @@ validate_inheritance(c)
    /\ UNCHANGED <<classes, exceptInh>>

NextInh ==
    \/ Len(classes) < MaxClasses
          /\ \E bases \in LegalBases, devs \in LegalBodies : LoadClass(bases, devs)
    \/ \E c \in Loaded : ValidateInheritance(c)

SpecInh == InitInh /\ [][NextInh]_vars

(***************************************************************************)
(* Claims about validate_inheritance                                       *)
(***************************************************************************)
\* the class of the last call has one base, which is not Root, and the
\* absolute devices of that parent can be determined
HasParentWithDevices(c) ==
    /\ c \in Loaded
    /\ Len(SetupBases(c)) = 1
    /\ SetupBases(c)[1] # Root
    /\ get_all_abs_inner_device_classes(SetupBases(c)[1]).res = "ok"

AbsParentDevices(c) == SeqToSet(get_all_abs_inner_device_classes(SetupBases(c)[1]).val)
InnerDevices(c) == SeqToSet(get_all_inner_device_classes(c))

\* C4 (as stated): whenever validate_inheritance() succeeds on a class that
\* declares devices and has a non-root parent, every declared device with the
\* name of a parent absolute device is a subclass of that same-named device,
\* and every declared device that is a subclass of a parent absolute device
\* has the name of that device.
C4_SameNameIffSubclass ==
    (vlast.res = "ok" /\ HasParentWithDevices(vlast.cls) /\ InnerDevices(vlast.cls) # {}) =>
        \A d \in InnerDevices(vlast.cls), p \in AbsParentDevices(vlast.cls) :
            (p[2] = d[2]) <=> IsSubDevice(d, p)

\* the Setup classes other than c that c is a subclass of
Ancestors(c) == {a \in Loaded : a # c /\ IsSubSetup(c, a)}

\* C5 (as stated): validate_inheritance() on a class completes without error
\* only if it completes without error on every ancestor class up to the root
\* type.
C5_ValidOnlyIfAncestorsValid ==
    (vlast.res = "ok" /\ vlast.cls \in Loaded) =>
        \A a \in Ancestors(vlast.cls) : validate_inheritance(a).res = "ok"

(***************************************************************************)
(* Connections: the kinds of the connection tree and the Connection        *)
(* operations the FeatureController calls                                  *)
(***************************************************************************)
Kinds == {"PowerConnection", "DCPowerConnection", "ACPowerConnection"}

\* @insert_into_tree(parents=[...])
KindParents(k) ==
    IF k \in {"DCPowerConnection", "ACPowerConnection"} THEN {"PowerConnection"} ELSE {}

RECURSIVE KindAncestors(_)
KindAncestors(k) == KindParents(k) \cup UNION {KindAncestors(p) : p \in KindParents(k)}

\* a connection requires a set of kinds at once and carries its metadata
Connection(kinds, metadata) == [kinds |-> kinds, metadata |-> metadata]

\* a pure type template: a connection without endpoints
Template(kinds) == Connection(kinds, EmptyMetadata)

\* a kind is contained in itself or in an ancestor
Kind_contained_in(k, other) == other = k \/ other \in KindAncestors(k)

Connection_contained_in(self, other, ignore_metadata) ==
    /\ \A k \in self.kinds : \E o \in other.kinds : Kind_contained_in(k, o)
    /\ (ignore_metadata \/ contained_in(self.metadata, other.metadata))

Connection_equal(self, other) ==
    self.kinds = other.kinds /\ equal_with(self.metadata, other.metadata)

\* the merge of two connections over the same endpoints: the union of the kinds
Connection_based_on(a, b) == Connection(a.kinds \cup b.kinds, a.metadata)

RECURSIVE SetToSeq(_)
SetToSeq(S) ==
    IF S = {} THEN <<>>
    ELSE LET x == CHOOSE y \in S : TRUE IN <<x>> \o SetToSeq(S \ {x})

\* the singles of a connection: one connection per kind, same endpoints
Connection_get_singles(c) ==
    LET ks == SetToSeq(c.kinds) IN [i \in DOMAIN ks |-> Connection({ks[i]}, c.metadata)]

(***************************************************************************)
(* FeatureController.get_method_variation                                  *)
(***************************************************************************)
\* the class Feature itself
Feature == 0
VDevices == 1..NumVDevices
MethodNames == {"read"}

\* _for_vdevice: None, or a dict  method name -> implementation -> vdevice ->
\* list of connections; the implementations of a method are kept in the order
\* of their insertion and are named by their position
NoTable == [defined |-> FALSE, methods |-> [m \in {} |-> <<>>]]
EmptyTable == [defined |-> TRUE, methods |-> [m \in {} |-> <<>>]]
TableOf(of_method_name, impls) ==
    [defined |-> TRUE, methods |-> [m \in {of_method_name} |-> impls]]

Returned(impl) == [res |-> "impl", why |-> "none", impl |-> impl]
ReturnedNone == [res |-> "None", why |-> "none", impl |-> <<0, 0>>]
Raised(err, why) == [res |-> err, why |-> why, impl |-> <<0, 0>>]

RECURSIVE Concat(_)
Concat(seqs) == IF seqs = <<>> THEN <<>> ELSE Head(seqs) \o Concat(Tail(seqs))

RECURSIVE based_on_all(_)
based_on_all(cnns) ==
    IF Len(cnns) = 1 THEN cnns[1]
    ELSE Connection_based_on(based_on_all(SubSeq(cnns, 1, Len(cnns) - 1)), cnns[Len(cnns)])

\* every single of an implementation counts as possible
every_single_is_possible(single, with_connection) == TRUE

\* line 173: a single of an implementation is possible under with_connection
single_is_possible(single, with_connection) ==
    Connection_contained_in(single, with_connection, TRUE)

\* lines 168-172: the singles an implementation gives for the vdevice that are
\* possible under with_connection, in the order of the loop
possible_singles(bindings, for_vdevice, with_connection) ==
    IF for_vdevice \notin DOMAIN bindings THEN <<>>
    ELSE LET cnns == bindings[for_vdevice]
             cur_impl_method_cnns ==
                 Concat([i \in DOMAIN cnns |-> Connection_get_singles(cnns[i])])
         IN  SelectSeq(cur_impl_method_cnns,
                       LAMBDA single : single_is_possible(single, with_connection))

\* lines 166-181: the dict  implementation -> combined connection, as the
\* sequence of its items in insertion order
all_possible_method_variations(cls, of_method_name, for_vdevice, with_connection) ==
    LET impls == features[cls].table.methods[of_method_name]
        found == SelectSeq([i \in DOMAIN impls |-> i],
                     LAMBDA i : possible_singles(impls[i].bindings, for_vdevice,
                                                 with_connection) # <<>>)
    IN  [j \in DOMAIN found |->
            [impl |-> <<cls, found[j]>>,
             cnn |-> based_on_all(possible_singles(impls[found[j]].bindings,
                                                   for_vdevice, with_connection))]]

\* deletes the candidate that contains every other candidate
can_be_deleted_containing(variations, i) ==
    \A j \in DOMAIN variations :
        \/ Connection_equal(variations[i].cnn, variations[j].cnn)
        \/ Connection_contained_in(variations[j].cnn, variations[i].cnn, FALSE)

\* lines 208-213: the candidate is contained in every other candidate whose
\* connection is not equal to its own
can_be_deleted(variations, i) ==
    \A j \in DOMAIN variations :
        \/ Connection_equal(variations[i].cnn, variations[j].cnn)
        \/ Connection_contained_in(variations[i].cnn, variations[j].cnn, FALSE)

RemoveAt(q, i) == SubSeq(q, 1, i - 1) \o SubSeq(q, i + 1, Len(q))

\* deletes every candidate that can be deleted in one run of the for loop
elimination_pass_without_break(variations) ==
    SelectSeq(variations,
              LAMBDA v : \E i \in DOMAIN variations :
                            variations[i] = v /\ ~can_be_deleted(variations, i))

\* lines 207-216: one run of the for loop deletes the first candidate that can
\* be deleted
elimination_pass(variations) ==
    IF \E i \in DOMAIN variations : can_be_deleted(variations, i)
    THEN RemoveAt(variations,
                  CHOOSE i \in DOMAIN variations :
                      /\ can_be_deleted(variations, i)
                      /\ \A j \in 1..(i - 1) : ~can_be_deleted(variations, j))
    ELSE variations

\* lines 204-219: the while loop
RECURSIVE eliminate(_)
eliminate(variations) ==
    LET after == elimination_pass(variations)
    IN  IF Len(after) = 1 \/ Len(after) = Len(variations) THEN after
        ELSE eliminate(after)

\* the ambiguity is suppressed like a missing finding
more_than_one_left_suppressed(ignore_no_findings) ==
    IF ignore_no_findings THEN ReturnedNone
    ELSE Raised("UnclearMethodVariationError", "more_than_one")

\* lines 221-225
more_than_one_left(ignore_no_findings) ==
    Raised("UnclearMethodVariationError", "more_than_one")

\* lines 193-198
nothing_found(ignore_no_findings) ==
    IF ~ignore_no_findings THEN Raised("UnclearMethodVariationError", "no_finding")
    ELSE ReturnedNone

RECURSIVE get_method_variation(_, _, _, _, _)
RECURSIVE search_in_parents(_, _, _, _)

\* lines 186-192: the bases in their order; a result that is not None is
\* returned, an exception of a parent call leaves the loop
search_in_parents(bases, of_method_name, for_vdevice, with_connection) ==
    IF bases = <<>> THEN ReturnedNone
    ELSE IF Head(bases) = Feature
    THEN search_in_parents(Tail(bases), of_method_name, for_vdevice, with_connection)
    ELSE LET parent_meth_result ==
                 get_method_variation(Head(bases), of_method_name, for_vdevice,
                                      with_connection, TRUE)
         IN  IF parent_meth_result.res # "None" THEN parent_meth_result
             ELSE search_in_parents(Tail(bases), of_method_name, for_vdevice,
                                    with_connection)

get_method_variation(cls, of_method_name, for_vdevice, with_connection, ignore_no_findings) ==
    LET all_vdevice_method_variations == features[cls].table
    IN  IF ~all_vdevice_method_variations.defined
        THEN Raised("ValueError", "no_method_variations")
        ELSE IF of_method_name \notin DOMAIN all_vdevice_method_variations.methods
        THEN Raised("ValueError", "method_not_found")
        ELSE LET variations == all_possible_method_variations(
                                   cls, of_method_name, for_vdevice, with_connection)
             IN  IF Len(variations) = 0
                 THEN LET parent == search_in_parents(features[cls].bases, of_method_name,
                                                      for_vdevice, with_connection)
                      IN  IF parent.res # "None" THEN parent
                          ELSE nothing_found(ignore_no_findings)
                 ELSE IF Len(variations) = 1 THEN Returned(variations[1].impl)
                 ELSE LET left == eliminate(variations)
                      IN  IF Len(left) > 1 THEN more_than_one_left(ignore_no_findings)
                          ELSE Returned(left[1].impl)

(***************************************************************************)
(* Specification of the method variations: the Feature classes are loaded  *)
(* with their bases and their method variation table; once they are        *)
(* loaded, get_method_variation is called on the most derived one (a call  *)
(* on another class is the call on the last class of a shorter sequence)   *)
(***************************************************************************)
LoadedFeatures == 1..Len(features)

RECURSIVE IsSubFeature(_, _)
IsSubFeature(c, a) ==
    \/ c = a
    \/ a = Feature
    \/ (c # Feature /\ \E i \in DOMAIN features[c].bases : IsSubFeature(features[c].bases[i], a))

\* the bases a new feature class can have: one base, or two loaded features
\* of which the first is no base of the second (the MRO of Python)
FeatureLegalBases ==
    {<<p>> : p \in {Feature} \cup LoadedFeatures}
      \cup {b \in LoadedFeatures \X LoadedFeatures : b[1] # b[2] /\ ~IsSubFeature(b[2], b[1])}

\* the connections of the declarations: templates of kinds that are no
\* ancestors of each other
DeclaredKinds ==
    {S \in SUBSET Kinds : S # {} /\ \A a, b \in S : a \notin KindAncestors(b)}

\* an implementation is bound to one vdevice with one connection
ImplEntries ==
    {[bindings |-> [v \in {vd} |-> <<Template(S)>>]] : vd \in VDevices, S \in DeclaredKinds}

RECURSIVE Variations(_)
Variations(fs) ==
    IF fs = <<>> THEN 0
    ELSE (IF "read" \in DOMAIN Head(fs).table.methods
          THEN Len(Head(fs).table.methods["read"]) ELSE 0) + Variations(Tail(fs))

\* the tables a new feature class can have
LegalTables ==
    {NoTable, EmptyTable}
      \cup {TableOf("read", impls) :
               impls \in UNION {[1..n -> ImplEntries] :
                                    n \in 1..(MaxVariations - Variations(features))}}

WithConnections == {Template(S) : S \in DeclaredKinds}

InitMeth ==
    /\ MetaIdle
    /\ CompareIdle
    /\ InhIdle
    /\ MethIdle
    /\ VDevIdle
    /\ AbsIdle
    /\ ExistIdle
    /\ TopoIdle
    /\ CacheIdle
    /\ DetIdle
    /\ InnerIdle
    /\ ElimIdle
    /\ RaceIdle
    /\ CoveredIdle

LoadFeature(bases, table) ==
    /\ features' = Append(features, [bases |-> bases, table |-> table])
    /\ UNCHANGED <<flast, exceptMeth>>

GetMethodVariation(cls, of_method_name, for_vdevice, with_connection, ignore_no_findings) ==
    /\ flast' = [cls |-> cls, for_vdevice |-> for_vdevice,
                 with_connection |-> with_connection,
                 ignore_no_findings |-> ignore_no_findings]
                @@ get_method_variation(cls, of_method_name, for_vdevice,
                                        with_connection, ignore_no_findings)
    /\ UNCHANGED <<features, exceptMeth>>

NextMeth ==
    \/ /\ Len(features) < MaxFeatures
       /\ flast = NoResolution
       /\ \E bases \in FeatureLegalBases, table \in LegalTables : LoadFeature(bases, table)
    \/ /\ features # <<>>
       /\ \E m \in MethodNames, v \in VDevices, w \in WithConnections, ign \in BOOLEAN :
              GetMethodVariation(Len(features), m, v, w, ign)

SpecMeth == InitMeth /\ [][NextMeth]_vars

(***************************************************************************)
(* Claims on get_method_variation                                          *)
(***************************************************************************)
Resolved == flast.res # "none"
HasMethod(cls) == features[cls].table.defined /\ "read" \in DOMAIN features[cls].table.methods
ImplsOf(cls) == features[cls].table.methods["read"]

\* the implementation is bound to the vdevice with exactly one connection
\* that requires exactly the kind k
RequiresKind(entry, v, k) ==
    v \in DOMAIN entry.bindings /\ entry.bindings[v] = <<Template({k})>>

\* the implementations of the class that are bound to the vdevice and of
\* which a required kind is contained in a kind of the connection
MatchingImpls(cls, v, w) ==
    {i \in DOMAIN ImplsOf(cls) :
        /\ v \in DOMAIN ImplsOf(cls)[i].bindings
        /\ \E n \in DOMAIN ImplsOf(cls)[i].bindings[v] :
              \E k \in ImplsOf(cls)[i].bindings[v][n].kinds :
                  \E o \in w.kinds : Kind_contained_in(k, o)}

\* i requires the kind K, j a sub-kind K' of K, both for the vdevice of the
\* last call, no other implementation is bound to that vdevice, and the call
\* was made with a connection of kind K'
BaseAndSubKind(i, j) ==
    /\ i # j
    /\ \E k \in Kinds : \E sub \in Kinds :
          /\ k \in KindAncestors(sub)
          /\ RequiresKind(ImplsOf(flast.cls)[i], flast.for_vdevice, k)
          /\ RequiresKind(ImplsOf(flast.cls)[j], flast.for_vdevice, sub)
          /\ flast.with_connection.kinds = {sub}
    /\ \A o \in DOMAIN ImplsOf(flast.cls) \ {i, j} :
          flast.for_vdevice \notin DOMAIN ImplsOf(flast.cls)[o].bindings

\* C6: when two implementations of a method are bound to the same VDevice, one
\* requiring the kind K and the other a sub-kind K' of K, the call for that
\* VDevice with a K' connection returns the K' implementation, never the K one.
C6_MoreSpecificWins ==
    (Resolved /\ HasMethod(flast.cls)) =>
        \A i, j \in DOMAIN ImplsOf(flast.cls) :
            BaseAndSubKind(i, j) => flast.res = "impl" /\ flast.impl = <<flast.cls, j>>

C6_Witness ==
    /\ Resolved /\ HasMethod(flast.cls)
    /\ \E i, j \in DOMAIN ImplsOf(flast.cls) :
          BaseAndSubKind(i, j) /\ i < j /\ flast.impl = <<flast.cls, j>>

\* the candidates of the called class, and two of them whose connections are
\* not contained in one another
LocalCandidates ==
    all_possible_method_variations(flast.cls, "read", flast.for_vdevice, flast.with_connection)
Incomparable(a, b) ==
    /\ ~Connection_contained_in(a.cnn, b.cnn, FALSE)
    /\ ~Connection_contained_in(b.cnn, a.cnn, FALSE)

\* C7: if more than one candidate is left when the elimination has reached
\* its fixed point - in particular when two candidates are not contained in
\* one another - the call raises UnclearMethodVariationError and returns no
\* implementation, also with ignore_no_findings = True.
C7_AmbiguityIsFatal ==
    (Resolved /\ HasMethod(flast.cls)) =>
        /\ (\E i, j \in DOMAIN LocalCandidates :
               Incomparable(LocalCandidates[i], LocalCandidates[j]))
             => Len(eliminate(LocalCandidates)) > 1
        /\ (Len(LocalCandidates) > 1 /\ Len(eliminate(LocalCandidates)) > 1)
             => /\ flast.res = "UnclearMethodVariationError"
                /\ flast.why = "more_than_one"
                /\ flast.impl = <<0, 0>>

C7_Witness ==
    /\ Resolved /\ HasMethod(flast.cls)
    /\ flast.ignore_no_findings
    /\ \E i, j \in DOMAIN LocalCandidates :
          Incomparable(LocalCandidates[i], LocalCandidates[j])
    /\ flast.res = "UnclearMethodVariationError"

\* the bases of a feature class that are feature classes other than Feature
FeatureParents(cls) == {features[cls].bases[i] : i \in DOMAIN features[cls].bases} \ {Feature}

RECURSIVE FeatureAncestors(_)
FeatureAncestors(cls) ==
    FeatureParents(cls) \cup UNION {FeatureAncestors(p) : p \in FeatureParents(cls)}

\* the class registers no implementation that matches the call
NoMatch(cls, v, w) == ~HasMethod(cls) \/ MatchingImpls(cls, v, w) = {}

\* the last call found no matching implementation in the called class itself
NothingFoundLocally ==
    /\ Resolved /\ HasMethod(flast.cls)
    /\ MatchingImpls(flast.cls, flast.for_vdevice, flast.with_connection) = {}

\* C8 (as stated): with zero matching implementations in the feature itself
\* the call returns the result of the search in the parent feature; if no
\* implementation matches in the feature or in any ancestor, it raises
\* UnclearMethodVariationError when ignore_no_findings is False and returns
\* None without raising anything when ignore_no_findings is True.
C8_ParentSearchOrUnresolved ==
    NothingFoundLocally =>
        /\ \A p \in FeatureParents(flast.cls) :
              (FeatureParents(flast.cls) = {p} /\ ~NoMatch(p, flast.for_vdevice, flast.with_connection))
                => [res |-> flast.res, why |-> flast.why, impl |-> flast.impl]
                     = get_method_variation(p, "read", flast.for_vdevice,
                                            flast.with_connection, TRUE)
        /\ (\A a \in FeatureAncestors(flast.cls) :
                NoMatch(a, flast.for_vdevice, flast.with_connection))
             => IF flast.ignore_no_findings
                THEN flast.res = "None"
                ELSE flast.res = "UnclearMethodVariationError" /\ flast.why = "no_finding"

\* C9 (as stated): when get_method_variation has to continue in the parents of
\* a class with more than one non-root Feature base, the call fails with
\* MultiInheritanceError instead of searching the parents.
C9_MultipleParentsRejected ==
    (NothingFoundLocally /\ Cardinality(FeatureParents(flast.cls)) > 1)
        => flast.res = "MultiInheritanceError"

(***************************************************************************)
(* FeatureController: the inner VDevice classes of the Feature classes     *)
(***************************************************************************)
\* the classes of the feature instances inside the VDevices
InnerFeatureClasses == {"FeatureI", "FeatureII"}

\* class FeatureII(FeatureI)
InnerFeatureBases(c) == IF c = "FeatureII" THEN {"FeatureI"} ELSE {}

\* the names of the feature attributes of a VDevice
AttrNames == {"feat"}

\* line 364: isinstance(instance of c, base)
isinstance_of(c, base) == c = base \/ base \in InnerFeatureBases(c)

\* a feature class has, under every VDevice name, no inner class or an inner
\* VDevice class with its bases and its instantiated features
VAbsent == [present |-> FALSE, bases |-> {}, features |-> [a \in {} |-> "FeatureI"]]
InnerVDevice(B, F) == [present |-> TRUE, bases |-> B, features |-> F]

LoadedVFeatures == 1..Len(vfeatures)
DeclaredVDevices ==
    {d \in LoadedVFeatures \X VDevices : vfeatures[d[1]].vdevs[d[2]].present}

RECURSIVE IsSubVDevice(_, _)
IsSubVDevice(d, p) ==
    \/ d = p
    \/ \E b \in vfeatures[d[1]].vdevs[d[2]].bases : IsSubVDevice(b, p)

RECURSIVE IsSubVFeature(_, _)
IsSubVFeature(c, a) ==
    \/ c = a
    \/ a = Feature
    \/ (c # Feature /\ \E i \in DOMAIN vfeatures[c].bases : IsSubVFeature(vfeatures[c].bases[i], a))

RECURSIVE get_abs_inner_vdevice_classes(_)

\* lines 250-256 and 269-275: the first base decides
search_vdevices_in_parent(cls) ==
    IF Head(vfeatures[cls].bases) = Feature THEN <<>>
    ELSE get_abs_inner_vdevice_classes(Head(vfeatures[cls].bases))

get_inner_vdevice_classes(cls) ==
    LET names == SortedSeq({n \in VDevices : vfeatures[cls].vdevs[n].present})
        filtered_classes == [i \in DOMAIN names |-> <<cls, names[i]>>]
    IN  IF Len(filtered_classes) = 0 THEN search_vdevices_in_parent(cls)
        ELSE filtered_classes

get_abs_inner_vdevice_classes(cls) ==
    LET filtered_classes == get_inner_vdevice_classes(cls)
    IN  IF Len(filtered_classes) = 0 THEN search_vdevices_in_parent(cls)
        ELSE filtered_classes

\* VDeviceController.get_all_instantiated_feature_objects
get_all_instantiated_feature_objects(d) == vfeatures[d[1]].vdevs[d[2]].features

VOutcome(res, kind, feature, of) == [res |-> res, kind |-> kind, feature |-> feature, of |-> of]
VPassed == VOutcome("ok", "none", 0, <<0, 0>>)

\* a parent VDevice without overwriting is accepted
missing_overwriting_accepted(cls, cur_parent_vdevice) == VPassed

\* lines 330-334
missing_overwriting(cls, cur_parent_vdevice) ==
    VOutcome("VDeviceOverwritingError", "missing_overwriting", cls, cur_parent_vdevice)

\* a VDevice with the name of a parent VDevice and another lineage is accepted
should_inherit_accepted(cls, cur_parent_vdevice) == VPassed

\* lines 339-344
should_inherit(cls, cur_parent_vdevice) ==
    VOutcome("VDeviceOverwritingError", "should_inherit", cls, cur_parent_vdevice)

\* the features of an overwriting VDevice are accepted
check_base_features_accepted(cls, names, related_child_vdevice, cur_parent_vdevice) == VPassed

\* lines 353-370: the first base property that the child VDevice lacks or
\* holds with a feature of another class
RECURSIVE check_base_features(_, _, _, _)
check_base_features(cls, names, related_child_vdevice, cur_parent_vdevice) ==
    IF names = <<>> THEN VPassed
    ELSE LET cur_vdevice_features == get_all_instantiated_feature_objects(related_child_vdevice)
             cur_vdevice_base_features == get_all_instantiated_feature_objects(cur_parent_vdevice)
             name == Head(names)
         IN  IF name \notin DOMAIN cur_vdevice_features
             THEN VOutcome("VDeviceResolvingError", "missing_property", cls, cur_parent_vdevice)
             ELSE IF ~isinstance_of(cur_vdevice_features[name], cur_vdevice_base_features[name])
             THEN VOutcome("FeatureOverwritingError", "no_child_feature", cls, cur_parent_vdevice)
             ELSE check_base_features(cls, Tail(names), related_child_vdevice, cur_parent_vdevice)

\* lines 328-370: the body of the loop over the parent VDevices
check_parent_vdevice(cls, all_direct_vdevices, cur_parent_vdevice) ==
    LET found == {i \in DOMAIN all_direct_vdevices :
                      all_direct_vdevices[i][2] = cur_parent_vdevice[2]}
    IN  IF found = {} THEN missing_overwriting(cls, cur_parent_vdevice)
        ELSE LET cur_child_idx == CHOOSE i \in found : \A j \in found : i <= j
                 related_child_vdevice == all_direct_vdevices[cur_child_idx]
             IN  IF ~IsSubVDevice(related_child_vdevice, cur_parent_vdevice)
                 THEN should_inherit(cls, cur_parent_vdevice)
                 ELSE check_base_features(
                          cls,
                          SetToSeq(DOMAIN get_all_instantiated_feature_objects(cur_parent_vdevice)),
                          related_child_vdevice, cur_parent_vdevice)

RECURSIVE check_parent_vdevices(_, _, _)
check_parent_vdevices(cls, all_direct_vdevices, parent_vdevices) ==
    IF parent_vdevices = <<>> THEN VPassed
    ELSE LET r == check_parent_vdevice(cls, all_direct_vdevices, Head(parent_vdevices))
         IN  IF r.res # "ok" THEN r
             ELSE check_parent_vdevices(cls, all_direct_vdevices, Tail(parent_vdevices))

RECURSIVE validate_inner_vdevice_inheritance(_)
validate_inner_vdevice_inheritance(cls) ==
    LET all_direct_vdevices_of_this_feature_lvl == get_inner_vdevice_classes(cls)
        feature_parents == SelectSeq(vfeatures[cls].bases, LAMBDA b : b # Feature)
    IN  IF Len(all_direct_vdevices_of_this_feature_lvl) = 0 THEN VPassed
        ELSE IF Len(feature_parents) > 1
        THEN VOutcome("MultiInheritanceError", "feature", cls, <<0, 0>>)
        ELSE IF Len(feature_parents) = 0 THEN VPassed
        ELSE LET next_feature_parent == feature_parents[1]
                 parent == validate_inner_vdevice_inheritance(next_feature_parent)
             IN  IF parent.res # "ok" THEN parent
                 ELSE check_parent_vdevices(
                          cls, all_direct_vdevices_of_this_feature_lvl,
                          get_abs_inner_vdevice_classes(next_feature_parent))

(***************************************************************************)
(* Specification of the inner VDevices: the Feature classes are loaded     *)
(* with their bases and their inner VDevice classes; once they are loaded, *)
(* validate_inner_vdevice_inheritance is called on the most derived one    *)
(***************************************************************************)
VFeatureLegalBases ==
    {<<p>> : p \in {Feature} \cup LoadedVFeatures}
      \cup {b \in LoadedVFeatures \X LoadedVFeatures :
               b[1] # b[2] /\ ~IsSubVFeature(b[2], b[1])}

\* the instantiated features a VDevice can have
AttrDicts == UNION {[S -> InnerFeatureClasses] : S \in SUBSET AttrNames}

\* the inner VDevice classes the next feature class can have: up to
\* MaxVDeviceBases VDevice classes of the loaded features as bases, and not more
\* than MaxVDeviceClasses VDevice classes in all features together
LegalVDeviceBodies ==
    LET one == {VAbsent} \cup
               {InnerVDevice(B, F) :
                    B \in {X \in SUBSET DeclaredVDevices : Cardinality(X) <= MaxVDeviceBases},
                    F \in AttrDicts}
    IN  {body \in [VDevices -> one] :
            Cardinality({n \in VDevices : body[n].present}) + Cardinality(DeclaredVDevices)
                <= MaxVDeviceClasses}

InitVDev ==
    /\ MetaIdle
    /\ CompareIdle
    /\ InhIdle
    /\ MethIdle
    /\ VDevIdle
    /\ AbsIdle
    /\ ExistIdle
    /\ TopoIdle
    /\ CacheIdle
    /\ DetIdle
    /\ InnerIdle
    /\ ElimIdle
    /\ RaceIdle
    /\ CoveredIdle

LoadVFeature(bases, vdevs) ==
    /\ vfeatures' = Append(vfeatures, [bases |-> bases, vdevs |-> vdevs])
    /\ UNCHANGED <<vdlast, exceptVDev>>

ValidateInnerVDeviceInheritance(cls) ==
    /\ vdlast' = [cls |-> cls] @@ validate_inner_vdevice_inheritance(cls)
    /\ UNCHANGED <<vfeatures, exceptVDev>>

NextVDev ==
    \/ /\ Len(vfeatures) < MaxFeatures
       /\ vdlast = NoVDeviceValidation
       /\ \E bases \in VFeatureLegalBases, vdevs \in LegalVDeviceBodies :
              LoadVFeature(bases, vdevs)
    \/ /\ vfeatures # <<>>
       /\ ValidateInnerVDeviceInheritance(Len(vfeatures))

SpecVDev == InitVDev /\ [][NextVDev]_vars

(***************************************************************************)
(* Claims on validate_inner_vdevice_inheritance                            *)
(***************************************************************************)
VDeviceValidated == vdlast.res # "none"
LocalVDeviceNames(cls) == {n \in VDevices : vfeatures[cls].vdevs[n].present}
VFeatureParents(cls) == {vfeatures[cls].bases[i] : i \in DOMAIN vfeatures[cls].bases} \ {Feature}
AbsVDevices(cls) == SeqToSet(get_abs_inner_vdevice_classes(cls))

\* the VDevices of the parent's absolute set without a same-named VDevice
\* among the local declarations of the class
MissingOverwritings(cls, parent) ==
    {pv \in AbsVDevices(parent) : pv[2] \notin LocalVDeviceNames(cls)}

\* the last call was made on a class that declares a VDevice, has the one
\* parent feature and leaves a VDevice of that parent without overwriting
PartialOverwriting(parent) ==
    /\ VDeviceValidated
    /\ LocalVDeviceNames(vdlast.cls) # {}
    /\ VFeatureParents(vdlast.cls) = {parent}
    /\ MissingOverwritings(vdlast.cls, parent) # {}

\* C10 (as stated): if a child feature declares at least one VDevice locally
\* and a VDevice of its nearest parent's absolute VDevice set has no same-named
\* local VDevice, the validation raises VDeviceOverwritingError naming the
\* missing parent VDevice and the child feature.
C10_MissingOverwritingRaised ==
    \A parent \in LoadedVFeatures :
        PartialOverwriting(parent) =>
            /\ vdlast.res = "VDeviceOverwritingError"
            /\ vdlast.kind = "missing_overwriting"
            /\ vdlast.of \in MissingOverwritings(vdlast.cls, parent)
            /\ vdlast.feature = vdlast.cls

\* the local VDevice with the name of the parent VDevice passes the checks of
\* lineage and of the instantiated features
OverwritesProperly(cls, pv) ==
    /\ pv[2] \in LocalVDeviceNames(cls)
    /\ IsSubVDevice(<<cls, pv[2]>>, pv)
    /\ \A a \in DOMAIN get_all_instantiated_feature_objects(pv) :
          /\ a \in DOMAIN get_all_instantiated_feature_objects(<<cls, pv[2]>>)
          /\ isinstance_of(get_all_instantiated_feature_objects(<<cls, pv[2]>>)[a],
                           get_all_instantiated_feature_objects(pv)[a])

\* C10 (amended): such a class never validates. The error is the
\* VDeviceOverwritingError that names the first missing parent VDevice (in the
\* order of the names) and the child feature if the parent validates on its
\* own and every parent VDevice with an earlier name is overwritten properly;
\* an error of the validation of the parent is raised instead of it.
C10_MissingOverwritingUnlessEarlierError ==
    \A parent \in LoadedVFeatures :
        PartialOverwriting(parent) =>
            LET missing == MissingOverwritings(vdlast.cls, parent)
                first == CHOOSE pv \in missing : \A o \in missing : pv[2] <= o[2]
                earlier == {pv \in AbsVDevices(parent) : pv[2] < first[2]}
                of_parent == validate_inner_vdevice_inheritance(parent)
            IN  /\ vdlast.res # "ok"
                /\ of_parent.res # "ok" => vdlast = [cls |-> vdlast.cls] @@ of_parent
                /\ (of_parent.res = "ok"
                      /\ \A pv \in earlier : OverwritesProperly(vdlast.cls, pv))
                     => /\ vdlast.res = "VDeviceOverwritingError"
                        /\ vdlast.kind = "missing_overwriting"
                        /\ vdlast.of = first
                        /\ vdlast.feature = vdlast.cls

C10_Witness ==
    \E parent \in LoadedVFeatures :
        /\ PartialOverwriting(parent)
        /\ Cardinality(AbsVDevices(parent)) = NumVDevices
        /\ vdlast.res = "VDeviceOverwritingError"
        /\ vdlast.kind = "missing_overwriting"
        /\ vdlast.feature = vdlast.cls

\* the VDevices of the parent's absolute set whose same-named local VDevice
\* of the class is not a subclass of them
WrongLineages(cls, parent) ==
    {pv \in AbsVDevices(parent) :
        pv[2] \in LocalVDeviceNames(cls) /\ ~IsSubVDevice(<<cls, pv[2]>>, pv)}

\* the last call was made on a class with the one parent feature that
\* declares a VDevice with the name and without the lineage of a parent VDevice
WrongLineage(parent) ==
    /\ VDeviceValidated
    /\ VFeatureParents(vdlast.cls) = {parent}
    /\ WrongLineages(vdlast.cls, parent) # {}

\* after a successful validation every local VDevice with the name of a
\* VDevice of the parent is a subclass of it
SameNamedAreSubclasses ==
    (VDeviceValidated /\ vdlast.res = "ok") =>
        \A parent \in VFeatureParents(vdlast.cls) : WrongLineages(vdlast.cls, parent) = {}

\* C11 (as stated): if a child feature declares a VDevice with the name of a
\* VDevice of its nearest parent feature that is not a subclass of it, the
\* validation raises VDeviceOverwritingError (read here as any error of that
\* class); after a successful validation every same-named local VDevice is a
\* subclass.
C11_WrongLineageRaised ==
    /\ \A parent \in LoadedVFeatures :
          WrongLineage(parent) =>
              vdlast.res = "VDeviceOverwritingError"
    /\ SameNamedAreSubclasses

\* C11 (amended): such a class never validates, and after a successful
\* validation every same-named local VDevice is a subclass. The error is the
\* VDeviceOverwritingError of the wrong lineage, naming the first such parent
\* VDevice (in the order of the names), if the parent validates on its own and
\* every parent VDevice with an earlier name is overwritten properly; an error
\* of the validation of the parent is raised instead of it.
C11_WrongLineageUnlessEarlierError ==
    /\ \A parent \in LoadedVFeatures :
          WrongLineage(parent) =>
              LET wrong == WrongLineages(vdlast.cls, parent)
                  first == CHOOSE pv \in wrong : \A o \in wrong : pv[2] <= o[2]
                  earlier == {pv \in AbsVDevices(parent) : pv[2] < first[2]}
                  of_parent == validate_inner_vdevice_inheritance(parent)
              IN  /\ vdlast.res # "ok"
                  /\ of_parent.res # "ok" => vdlast = [cls |-> vdlast.cls] @@ of_parent
                  /\ (of_parent.res = "ok"
                        /\ \A pv \in earlier : OverwritesProperly(vdlast.cls, pv))
                       => /\ vdlast.res = "VDeviceOverwritingError"
                          /\ vdlast.kind = "should_inherit"
                          /\ vdlast.of = first
                          /\ vdlast.feature = vdlast.cls
    /\ SameNamedAreSubclasses

C11_Witness ==
    \E parent \in LoadedVFeatures :
        /\ WrongLineage(parent)
        /\ Cardinality(AbsVDevices(parent)) = NumVDevices
        /\ vdlast.res = "VDeviceOverwritingError"
        /\ vdlast.kind = "should_inherit"
        /\ vdlast.of[2] = NumVDevices

\* the feature attributes of the parent VDevice pv that the VDevice d lacks,
\* and those that it holds with an instance of another class
AbsentAttrs(d, pv) ==
    {a \in DOMAIN get_all_instantiated_feature_objects(pv) :
        a \notin DOMAIN get_all_instantiated_feature_objects(d)}
WrongClassAttrs(d, pv) ==
    {a \in DOMAIN get_all_instantiated_feature_objects(pv)
           \cap DOMAIN get_all_instantiated_feature_objects(d) :
        ~isinstance_of(get_all_instantiated_feature_objects(d)[a],
                       get_all_instantiated_feature_objects(pv)[a])}

\* the VDevices of the parent's absolute set that the class overrides (same
\* name, subclass) with a defect in the feature attributes
BadOverridings(cls, parent) ==
    {pv \in AbsVDevices(parent) :
        /\ pv[2] \in LocalVDeviceNames(cls)
        /\ IsSubVDevice(<<cls, pv[2]>>, pv)
        /\ AbsentAttrs(<<cls, pv[2]>>, pv) \cup WrongClassAttrs(<<cls, pv[2]>>, pv) # {}}

AttrDefect(parent) ==
    /\ VDeviceValidated
    /\ VFeatureParents(vdlast.cls) = {parent}
    /\ BadOverridings(vdlast.cls, parent) # {}

\* the attributes that only the child VDevice has do not count: a class whose
\* parent validates and whose local VDevices overwrite every parent VDevice
\* properly validates, whatever attributes its VDevices add
ChildOnlyAttrsAccepted ==
    \A parent \in LoadedVFeatures :
        (/\ VDeviceValidated
         /\ VFeatureParents(vdlast.cls) = {parent}
         /\ validate_inner_vdevice_inheritance(parent).res = "ok"
         /\ \A pv \in AbsVDevices(parent) : OverwritesProperly(vdlast.cls, pv))
            => vdlast.res = "ok"

\* C12 (as stated): if an overriding VDevice lacks a feature attribute of the
\* overridden parent VDevice or holds it with an instance of another class,
\* the validation raises FeatureOverwritingError (VDeviceResolvingError when
\* the attribute is absent); attributes of the child VDevice alone never cause
\* an error.
C12_AttrDefectRaised ==
    /\ \A parent \in LoadedVFeatures :
          AttrDefect(parent) =>
              vdlast.res \in {"FeatureOverwritingError", "VDeviceResolvingError"}
    /\ ChildOnlyAttrsAccepted

\* C12 (amended): such a class never validates, and attributes of the child
\* VDevice alone never cause an error. The error is the FeatureOverwritingError
\* (VDeviceResolvingError for an absent attribute) of the first parent VDevice
\* with such a defect (in the order of the names) if the parent validates on
\* its own and every parent VDevice with an earlier name is overwritten
\* properly; an error of the validation of the parent is raised instead of it.
C12_AttrDefectUnlessEarlierError ==
    /\ \A parent \in LoadedVFeatures :
          AttrDefect(parent) =>
              LET bad == BadOverridings(vdlast.cls, parent)
                  first == CHOOSE pv \in bad : \A o \in bad : pv[2] <= o[2]
                  child == <<vdlast.cls, first[2]>>
                  earlier == {pv \in AbsVDevices(parent) : pv[2] < first[2]}
                  of_parent == validate_inner_vdevice_inheritance(parent)
              IN  /\ vdlast.res # "ok"
                  /\ of_parent.res # "ok" => vdlast = [cls |-> vdlast.cls] @@ of_parent
                  /\ (of_parent.res = "ok"
                        /\ \A pv \in earlier : OverwritesProperly(vdlast.cls, pv))
                       => /\ vdlast.of = first
                          /\ vdlast.feature = vdlast.cls
                          /\ \/ /\ vdlast.res = "VDeviceResolvingError"
                                /\ AbsentAttrs(child, first) # {}
                             \/ /\ vdlast.res = "FeatureOverwritingError"
                                /\ WrongClassAttrs(child, first) # {}
    /\ ChildOnlyAttrsAccepted

C12_Witness ==
    \E parent \in LoadedVFeatures :
        /\ AttrDefect(parent)
        /\ vdlast.res = "FeatureOverwritingError"
        /\ vdlast.of[2] = NumVDevices
        /\ DOMAIN get_all_instantiated_feature_objects(<<vdlast.cls, 1>>) = AttrNames
        /\ DOMAIN get_all_instantiated_feature_objects(<<parent, 1>>) = {}

(***************************************************************************)
(* Further claims about validate_inheritance                               *)
(***************************************************************************)
InhValidated == vlast.res # "none"

\* the devices of the parent's absolute set without a subclass among the
\* devices the class declares
Uncovered(c) ==
    {p \in AbsParentDevices(c) : \A d \in InnerDevices(c) : ~IsSubDevice(d, p)}

\* the last call was made on a class with a non-root parent that declares a
\* device and leaves a device of the parent uncovered
PartialCoverage ==
    /\ InhValidated
    /\ HasParentWithDevices(vlast.cls)
    /\ InnerDevices(vlast.cls) # {}
    /\ Uncovered(vlast.cls) # {}

\* the declared devices pass the tests of naming and lineage
DevicesPass(c) ==
    \A d \in InnerDevices(c) :
        check_device(d, get_all_abs_inner_device_classes(SetupBases(c)[1]).val).res = "ok"

\* C13 (as stated): if a class with a non-root parent declares at least one
\* device and a device of the parent's absolute set has no declared subclass,
\* validate_inheritance raises DeviceOverwritingError naming the uncovered
\* parent device (and, for the coverage error, the child class).
C13_UncoveredRaised ==
    PartialCoverage =>
        /\ vlast.res = "DeviceOverwritingError"
        /\ \/ /\ vlast.kind = "not_implemented"
              /\ vlast.dev \in Uncovered(vlast.cls)
              /\ vlast.parent = vlast.cls
           \/ /\ vlast.kind \in {"should_inherit", "should_have_same_name"}
              /\ vlast.parent \in Uncovered(vlast.cls)

\* C13 (amended): such a class never validates. If every declared device
\* passes the tests of naming and lineage, the error is the
\* DeviceOverwritingError naming the first uncovered parent device (in the
\* order of the names) and the child class; otherwise the error of the first
\* declared device that fails these tests is raised.
C13_UncoveredUnlessDeviceError ==
    PartialCoverage =>
        LET c == vlast.cls
            first == CHOOSE p \in Uncovered(c) : \A o \in Uncovered(c) : p[2] <= o[2]
        IN  /\ vlast.res \in {"DeviceOverwritingError", "MultiInheritanceError"}
            /\ DevicesPass(c) =>
                  /\ vlast.res = "DeviceOverwritingError"
                  /\ vlast.kind = "not_implemented"
                  /\ vlast.dev = first
                  /\ vlast.parent = c
            /\ ~DevicesPass(c) =>
                  /\ vlast.kind \in {"should_inherit", "should_have_same_name", "device"}
                  /\ vlast.dev \in InnerDevices(c)

C13_Witness ==
    /\ PartialCoverage
    /\ Cardinality(AbsParentDevices(vlast.cls)) = NumDeviceNames
    /\ DevicesPass(vlast.cls)
    /\ vlast.kind = "not_implemented"
    /\ vlast.dev[2] = NumDeviceNames

(***************************************************************************)
(* Specification of the absolute devices: the Setup classes are loaded,    *)
(* then get_all_abs_inner_device_classes and validate_inheritance are      *)
(* called on the most derived one                                          *)
(***************************************************************************)
InitAbs ==
    /\ MetaIdle
    /\ CompareIdle
    /\ InhIdle
    /\ MethIdle
    /\ VDevIdle
    /\ AbsIdle
    /\ ExistIdle
    /\ TopoIdle
    /\ CacheIdle
    /\ DetIdle
    /\ InnerIdle
    /\ ElimIdle
    /\ RaceIdle
    /\ CoveredIdle

\* get_for(c).get_all_abs_inner_device_classes()
GetAllAbsInnerDeviceClasses(c) ==
    /\ alast' = [cls |-> c] @@ get_all_abs_inner_device_classes(c)
    /\ UNCHANGED <<inhVars, exceptAbs>>

NextAbs ==
    \/ /\ Len(classes) < MaxClasses
       /\ vlast = NoValidation
       /\ alast = NoAbsCall
       /\ \E bases \in LegalBases, devs \in LegalBodies : LoadClass(bases, devs)
    \/ /\ classes # <<>>
       /\ GetAllAbsInnerDeviceClasses(Len(classes))
    \/ /\ classes # <<>>
       /\ ValidateInheritance(Len(classes))

SpecAbs == InitAbs /\ [][NextAbs]_vars

\* the classes from c upwards to the first one that declares devices have
\* one base each
RECURSIVE SingleChain(_)
SingleChain(c) ==
    \/ InnerDevices(c) # {}
    \/ /\ Len(classes[c].bases) = 1
       /\ (classes[c].bases[1] = Root \/ SingleChain(classes[c].bases[1]))

\* the nearest class from c upwards that declares devices, Root if none does
RECURSIVE NearestDeclaring(_)
NearestDeclaring(c) ==
    IF c = Root \/ InnerDevices(c) # {} THEN c
    ELSE NearestDeclaring(classes[c].bases[1])

DevicesOfNearest(c) ==
    IF NearestDeclaring(c) = Root THEN <<>>
    ELSE get_all_inner_device_classes(NearestDeclaring(c))

\* C14: for a class without devices of its own in a single-parent chain,
\* validate_inheritance raises no overriding error, and
\* get_all_abs_inner_device_classes returns the device list of the nearest
\* ancestor that declares devices (the empty list if none does).
C14_ZeroDevicesInheritAbsoluteSet ==
    /\ (vlast.res # "none" /\ InnerDevices(vlast.cls) = {}) =>
          /\ vlast.res # "DeviceOverwritingError"
          /\ SingleChain(vlast.cls) => vlast.res = "ok"
    /\ (alast.res # "none" /\ InnerDevices(alast.cls) = {} /\ SingleChain(alast.cls)) =>
          /\ alast.res = "ok"
          /\ alast.val = DevicesOfNearest(alast.cls)

\* both calls were made on a class without devices whose parent has none
\* either and whose grandparent declares every device
C14_Witness ==
    /\ alast.res = "ok"
    /\ vlast.res = "ok"
    /\ alast.cls = vlast.cls
    /\ InnerDevices(alast.cls) = {}
    /\ NearestDeclaring(alast.cls) \notin {Root, alast.cls}
    /\ NearestDeclaring(alast.cls) \notin SeqToSet(classes[alast.cls].bases)
    /\ Len(alast.val) = NumDeviceNames

\* a device of the class that fails the tests of naming and lineage against
\* the absolute devices of the first base, or a device of that base that the
\* class leaves uncovered
BreaksDeviceRule(c) ==
    LET abs_parent == get_all_abs_inner_device_classes(SetupBases(c)[1])
    IN  /\ SetupBases(c)[1] # Root
        /\ abs_parent.res = "ok"
        /\ InnerDevices(c) # {}
        /\ \/ \E d \in InnerDevices(c) : check_device(d, abs_parent.val).res # "ok"
           \/ \E p \in SeqToSet(abs_parent.val) :
                  check_covered(c, p, get_all_inner_device_classes(c)).res # "ok"

\* C15: validate_inheritance on a class with more than one Scenario/Setup base
\* raises the MultiInheritanceError of the class itself, whatever its devices
\* are: no rule of device naming, lineage or coverage is evaluated before.
C15_MultiInheritanceFirst ==
    (InhValidated /\ Len(classes[vlast.cls].bases) > 1) =>
        /\ vlast.res = "MultiInheritanceError"
        /\ vlast.kind = "class"
        /\ vlast.parent = vlast.cls

C15_Witness ==
    /\ InhValidated
    /\ Len(classes[vlast.cls].bases) > 1
    /\ BreaksDeviceRule(vlast.cls)
    /\ vlast.res = "MultiInheritanceError"

(***************************************************************************)
(* NormalScenarioSetupController.check_vdevice_feature_existence           *)
(***************************************************************************)
\* DeviceController.get_all_instantiated_feature_objects
Device_get_all_instantiated_feature_objects(d) ==
    [a \in {x \in PropertyNames : inst[d][x].present} |-> inst[d][a]]

\* VDeviceController.get_all_instantiated_feature_objects: the classes of the
\* feature instances of the VDevice
VDevice_get_all_instantiated_feature_objects(v) == vreq[v]

\* Feature.active_vdevice_device_mapping
active_vdevice_device_mapping(cur_feature) == <<cur_feature.vdevice, cur_feature.device>>

EOutcome(res, device, vdevice, feature) ==
    [res |-> res, device |-> device, vdevice |-> vdevice, feature |-> feature]
EPassed == EOutcome("ok", <<0, 0>>, 0, "none")

RECURSIVE EFirstError(_)
EFirstError(q) ==
    IF q = <<>> THEN EPassed
    ELSE IF Head(q).res # "ok" THEN Head(q)
    ELSE EFirstError(Tail(q))

\* every feature of a VDevice is taken as found
found_it_always(orig_device_features, cur_vdevice_feature) == TRUE

\* lines 249-253
found_it(orig_device_features, cur_vdevice_feature) ==
    \E i \in DOMAIN orig_device_features :
        isinstance_of(orig_device_features[i].cls, cur_vdevice_feature)

\* lines 236-260 for one feature instance of a device
check_feature(cur_feature) ==
    LET active_vdevice == active_vdevice_device_mapping(cur_feature)[1]
        related_device == active_vdevice_device_mapping(cur_feature)[2]
    IN  IF active_vdevice = 0 THEN EPassed
        ELSE LET of_device == Device_get_all_instantiated_feature_objects(related_device)
                 names == SetToSeq(DOMAIN of_device)
                 orig_device_features == [i \in DOMAIN names |-> of_device[names[i]]]
                 of_vdevice == VDevice_get_all_instantiated_feature_objects(active_vdevice)
                 vnames == SetToSeq(DOMAIN of_vdevice)
             IN  EFirstError([i \in DOMAIN vnames |->
                     IF found_it(orig_device_features, of_vdevice[vnames[i]]) THEN EPassed
                     ELSE EOutcome("Exception", related_device, active_vdevice,
                                   of_vdevice[vnames[i]])])

\* lines 233-260 for one device
check_features_of(cur_device) ==
    LET cur_device_instantiated_features == Device_get_all_instantiated_feature_objects(cur_device)
        names == SetToSeq(DOMAIN cur_device_instantiated_features)
    IN  EFirstError([i \in DOMAIN names |->
                        check_feature(cur_device_instantiated_features[names[i]])])

check_vdevice_feature_existence(c) ==
    LET all_devices == get_all_abs_inner_device_classes(c)
    IN  IF all_devices.res # "ok" THEN EOutcome(all_devices.res, <<0, 0>>, 0, "none")
        ELSE EFirstError([i \in DOMAIN all_devices.val |-> check_features_of(all_devices.val[i])])

(***************************************************************************)
(* Specification of the feature existence check: a chain of setup classes  *)
(* is loaded with their devices, features are instantiated in the devices  *)
(* and in the VDevices, then check_vdevice_feature_existence is called on   *)
(* the most derived class                                                  *)
(***************************************************************************)
InitExist ==
    /\ MetaIdle
    /\ CompareIdle
    /\ InhIdle
    /\ MethIdle
    /\ VDevIdle
    /\ AbsIdle
    /\ ExistIdle
    /\ TopoIdle
    /\ CacheIdle
    /\ DetIdle
    /\ InnerIdle
    /\ ElimIdle
    /\ RaceIdle
    /\ CoveredIdle

Instances == {d \in SetupDevices \X PropertyNames : inst[d[1]][d[2]].present}
NothingInstantiated ==
    /\ Instances = {}
    /\ \A v \in MappedVDevices : vreq[v] = NoProperties

\* a class with devices that have no device base, on top of the last class
LoadSetupClass(names) ==
    /\ classes' = Append(classes,
                    [bases |-> IF classes = <<>> THEN <<Root>> ELSE <<Len(classes)>>,
                     devs |-> [n \in DeviceNames |->
                                  IF n \in names THEN InnerDevice({}) ELSE Absent]])
    /\ UNCHANGED <<vlast, exceptInh>>

\* a device of a loaded class gets a feature instance, with or without an
\* active VDevice mapping to a device
InstantiateFeature(d, a, cls, vdevice, device) ==
    /\ inst' = [inst EXCEPT ![d][a] = Instance(cls, vdevice, device)]
    /\ UNCHANGED <<vreq, elast, inhVars, exceptExist>>

\* a VDevice gets a feature instance
InstantiateVDeviceFeature(v, a, cls) ==
    /\ vreq' = [vreq EXCEPT ![v] = [x \in DOMAIN vreq[v] \cup {a} |->
                                       IF x = a THEN cls ELSE vreq[v][x]]]
    /\ UNCHANGED <<inst, elast, inhVars, exceptExist>>

CheckVDeviceFeatureExistence(c) ==
    /\ elast' = [cls |-> c] @@ check_vdevice_feature_existence(c)
    /\ UNCHANGED <<inst, vreq, inhVars, exceptExist>>

NextExist ==
    \/ /\ Len(classes) < MaxSetupLevels
       /\ NothingInstantiated
       /\ elast = NoExistenceCheck
       /\ \E names \in SUBSET DeviceNames : LoadSetupClass(names)
    \/ /\ elast = NoExistenceCheck
       /\ Cardinality(Instances) < MaxInstances
       /\ \E d \in DeclaredDevices, a \in PropertyNames :
             /\ ~inst[d][a].present
             /\ \E cls \in InnerFeatureClasses :
                   \/ InstantiateFeature(d, a, cls, 0, <<0, 0>>)
                   \/ \E v \in MappedVDevices, device \in DeclaredDevices :
                          InstantiateFeature(d, a, cls, v, device)
    \/ /\ elast = NoExistenceCheck
       /\ \E v \in MappedVDevices, a \in PropertyNames, cls \in InnerFeatureClasses :
             a \notin DOMAIN vreq[v] /\ InstantiateVDeviceFeature(v, a, cls)
    \/ /\ classes # <<>>
       /\ CheckVDeviceFeatureExistence(Len(classes))

SpecExist == InitExist /\ [][NextExist]_vars

\* the feature instances of the effective devices of c that have an active
\* VDevice mapping
MappedInstances(c) ==
    {f \in {inst[d][a] : d \in SeqToSet(DevicesOfNearest(c)), a \in PropertyNames} :
        f.present /\ f.vdevice # 0}

\* the device f is mapped to has, for every feature of the VDevice of f, an
\* instance of that class or of a subclass of it
Implemented(f) ==
    \A b \in DOMAIN vreq[f.vdevice] :
        \E a \in PropertyNames :
            /\ inst[f.device][a].present
            /\ \/ inst[f.device][a].cls = vreq[f.vdevice][b]
               \/ vreq[f.vdevice][b] \in InnerFeatureBases(inst[f.device][a].cls)

\* C16: check_vdevice_feature_existence succeeds if and only if every feature
\* instance of an effective device with an active VDevice mapping finds, for
\* every feature of that VDevice, an instance of the same class or of a
\* subclass on the mapped device; otherwise it raises the error of the missing
\* implementation. Instances without active VDevice impose nothing.
C16_ExistenceIffImplemented ==
    elast.res # "none" =>
        /\ elast.res = "ok" <=> \A f \in MappedInstances(elast.cls) : Implemented(f)
        /\ elast.res # "ok" =>
              /\ elast.res = "Exception"
              /\ \E f \in MappedInstances(elast.cls) :
                    /\ ~Implemented(f)
                    /\ elast.device = f.device
                    /\ elast.vdevice = f.vdevice

\* the check fails on an inherited device whose mapped device lacks a feature
\* of the VDevice, next to an instance without active VDevice
C16_Witness ==
    /\ elast.res = "Exception"
    /\ InnerDevices(elast.cls) = {}
    /\ \E d \in SeqToSet(DevicesOfNearest(elast.cls)), a \in PropertyNames :
          inst[d][a].present /\ inst[d][a].vdevice = 0
    /\ Cardinality(DOMAIN vreq[elast.vdevice]) = 2

(***************************************************************************)
(* NormalScenarioSetupController: the connections of the devices           *)
(***************************************************************************)
\* the node names of the devices
NodeNames == 1..NumNodes

\* a connection between two devices requires its kinds and carries the
\* devices and the node names in its metadata
DeviceConnection(kinds, from_device, from_node_name, to_device, to_node_name) ==
    Connection(kinds, [from_device |-> from_device, from_node_name |-> from_node_name,
                       to_device |-> to_device, to_node_name |-> to_node_name,
                       bidirectional |-> TRUE])
from_device(cnn) == cnn.metadata.from_device
to_device(cnn) == cnn.metadata.to_device
from_node_name(cnn) == cnn.metadata.from_node_name
to_node_name(cnn) == cnn.metadata.to_node_name

\* DeviceController.absolute_connections: the connections of the device by
\* the device on their other side; both devices of a connection hold it
absolute_connections(device) ==
    LET partners == {to_device(device_cnns[i]) : i \in {j \in DOMAIN device_cnns :
                         from_device(device_cnns[j]) = device}}
                    \cup {from_device(device_cnns[i]) : i \in {j \in DOMAIN device_cnns :
                              to_device(device_cnns[j]) = device}}
    IN  [other \in partners |->
            SelectSeq(device_cnns,
                      LAMBDA c : \/ from_device(c) = device /\ to_device(c) = other
                                 \/ to_device(c) = device /\ from_device(c) = other)]

\* DeviceController.connections: the connections defined at the device, by
\* its node names
connections(device) ==
    LET nodes == {from_node_name(device_cnns[i]) : i \in {j \in DOMAIN device_cnns :
                      from_device(device_cnns[j]) = device}}
    IN  [node \in nodes |->
            SelectSeq(device_cnns,
                      LAMBDA c : from_device(c) = device /\ from_node_name(c) = node)]

\* the values of a dictionary in the order of its keys
DictValues(dict) ==
    LET keys == SetToSeq(DOMAIN dict) IN [i \in DOMAIN keys |-> dict[keys[i]]]

\* the node names are always taken as from / to
nodes_as_defined(cur_from_device, cur_cnn) ==
    <<from_node_name(cur_cnn), to_node_name(cur_cnn)>>

\* lines 281-286: the node of the connection at cur_from_device and the node
\* on its other side
nodes_of(cur_from_device, cur_cnn) ==
    IF cur_from_device = from_device(cur_cnn)
    THEN <<from_node_name(cur_cnn), to_node_name(cur_cnn)>>
    ELSE <<to_node_name(cur_cnn), from_node_name(cur_cnn)>>

\* lines 279-298: the entries a device gives to the table, in the order of
\* the loops: the four keys and the singles
entries_of(cur_from_device) ==
    LET dict == absolute_connections(cur_from_device)
        keys == SetToSeq(DOMAIN dict)
    IN  Concat([i \in DOMAIN keys |->
                  [j \in DOMAIN dict[keys[i]] |->
                      [key |-> <<cur_from_device, nodes_of(cur_from_device, dict[keys[i]][j])[1],
                                 keys[i], nodes_of(cur_from_device, dict[keys[i]][j])[2]>>,
                       singles |-> Connection_get_singles(dict[keys[i]][j])]]])

\* a second definition of the four keys is not noticed
defined_twice_ignored(table, key) == FALSE

\* lines 295-296 and 301-306: the four keys have an entry already
defined_twice(table, key) == key \in DOMAIN table

\* lines 287-306: the entries are written into the table one after the other
RECURSIVE fill_table(_, _)
fill_table(table, entries) ==
    IF entries = <<>> THEN Ok(table)
    ELSE IF defined_twice(table, Head(entries).key) THEN Raise("ValueError")
    ELSE fill_table(table @@ (Head(entries).key :> Head(entries).singles), Tail(entries))

get_absolute_single_connections(c) ==
    LET all_devices == get_all_abs_inner_device_classes(c)
    IN  IF all_devices.res # "ok" THEN Raise(all_devices.res)
        ELSE fill_table(<<>>, Concat([i \in DOMAIN all_devices.val |->
                                         entries_of(all_devices.val[i])]))

\* lines 107-113
get_all_connections(c) ==
    LET all_device_classes == get_all_inner_device_classes(c)
    IN  Ok(Concat([i \in DOMAIN all_device_classes |->
                      Concat(DictValues(connections(all_device_classes[i])))]))

\* every connection is appended, whether the list holds it or not
append_all(all_connections, cur_connections) == all_connections \o cur_connections

\* lines 124-127: a connection is appended if the list does not hold it yet
RECURSIVE append_new(_, _)
append_new(all_connections, cur_connections) ==
    IF cur_connections = <<>> THEN all_connections
    ELSE append_new(IF Head(cur_connections) \in SeqToSet(all_connections)
                    THEN all_connections
                    ELSE Append(all_connections, Head(cur_connections)),
                    Tail(cur_connections))

get_all_abs_connections(c) ==
    LET all_device_classes == get_all_abs_inner_device_classes(c)
    IN  IF all_device_classes.res # "ok" THEN Raise(all_device_classes.res)
        ELSE Ok(append_new(<<>>,
                    Concat([i \in DOMAIN all_device_classes.val |->
                        Concat(DictValues(absolute_connections(all_device_classes.val[i])))])))

(***************************************************************************)
(* Specification of the connections: a chain of setup classes is loaded    *)
(* with their devices, the devices of a class are connected, then the      *)
(* connections of the most derived class are collected                     *)
(***************************************************************************)
InitTopo ==
    /\ MetaIdle
    /\ CompareIdle
    /\ InhIdle
    /\ MethIdle
    /\ VDevIdle
    /\ AbsIdle
    /\ ExistIdle
    /\ TopoIdle
    /\ CacheIdle
    /\ DetIdle
    /\ InnerIdle
    /\ ElimIdle
    /\ RaceIdle
    /\ CoveredIdle

\* the kinds a connection between two devices requires
ConnectionKinds == {{"DCPowerConnection"}, {"DCPowerConnection", "ACPowerConnection"}}

\* @connect: a connection between two devices of a class
Connect(cnn) ==
    /\ device_cnns' = Append(device_cnns, cnn)
    /\ UNCHANGED <<tlast, inhVars, exceptTopo>>

GetAbsoluteSingleConnections(c) ==
    /\ tlast' = [op |-> "get_absolute_single_connections", cls |-> c]
                    @@ get_absolute_single_connections(c)
    /\ UNCHANGED <<device_cnns, inhVars, exceptTopo>>

GetAllConnections(c) ==
    /\ tlast' = [op |-> "get_all_connections", cls |-> c] @@ get_all_connections(c)
    /\ UNCHANGED <<device_cnns, inhVars, exceptTopo>>

GetAllAbsConnections(c) ==
    /\ tlast' = [op |-> "get_all_abs_connections", cls |-> c] @@ get_all_abs_connections(c)
    /\ UNCHANGED <<device_cnns, inhVars, exceptTopo>>

NextTopo ==
    \/ /\ Len(classes) < MaxSetupLevels
       /\ device_cnns = <<>>
       /\ tlast = NoTopologyCall
       /\ \E names \in SUBSET DeviceNames : LoadSetupClass(names)
    \/ /\ Len(device_cnns) < MaxConnections
       /\ tlast = NoTopologyCall
       /\ \E d \in DeclaredDevices, e \in DeclaredDevices :
             /\ d # e
             /\ d[1] = e[1]
             /\ \E kinds \in ConnectionKinds, p \in NodeNames, q \in NodeNames :
                    Connect(DeviceConnection(kinds, d, p, e, q))
    \/ /\ classes # <<>>
       /\ GetAbsoluteSingleConnections(Len(classes))
    \/ /\ classes # <<>>
       /\ GetAllConnections(Len(classes))
    \/ /\ classes # <<>>
       /\ GetAllAbsConnections(Len(classes))

SpecTopo == InitTopo /\ [][NextTopo]_vars

(***************************************************************************)
(* Claims about the connections of a class                                 *)
(***************************************************************************)
\* the devices of the nearest class that declares devices
EffectiveDevices(c) == SeqToSet(DevicesOfNearest(c))

\* the connections (by their position) that a device holds
Held(device) ==
    {i \in DOMAIN device_cnns :
        from_device(device_cnns[i]) = device \/ to_device(device_cnns[i]) = device}

\* the four keys of a connection seen from one of its devices
KeyOf(device, cnn) ==
    IF from_device(cnn) = device
    THEN <<device, from_node_name(cnn), to_device(cnn), to_node_name(cnn)>>
    ELSE <<device, to_node_name(cnn), from_device(cnn), from_node_name(cnn)>>

\* the connections of the effective devices of c that have the four keys
DefinedBy(c, key) ==
    {h \in EffectiveDevices(c) \X DOMAIN device_cnns :
        h[2] \in Held(h[1]) /\ KeyOf(h[1], device_cnns[h[2]]) = key}

\* two connections of an effective device of c have the same four keys
SameKeysTwice(c) ==
    \E d \in EffectiveDevices(c) :
        \E i \in Held(d), j \in Held(d) :
            i # j /\ KeyOf(d, device_cnns[i]) = KeyOf(d, device_cnns[j])

SinglesCollected == tlast.op = "get_absolute_single_connections"

\* C17: get_absolute_single_connections fails and returns no table whenever
\* two absolute connections of the effective devices have the same four keys
\* (from_device, from_node, to_device, to_node); in a table it returns, every
\* four keys were defined by exactly one absolute connection.
C17_DuplicateKeysFail ==
    SinglesCollected =>
        /\ SameKeysTwice(tlast.cls) => (tlast.res = "ValueError" /\ tlast.val = <<>>)
        /\ tlast.res = "ok" =>
              \A key \in DOMAIN tlast.val : Cardinality(DefinedBy(tlast.cls, key)) = 1

\* the call fails on two connections of inherited devices that are defined in
\* opposite directions between the same nodes
C17_Witness ==
    /\ SinglesCollected
    /\ tlast.res = "ValueError"
    /\ InnerDevices(tlast.cls) = {}
    /\ Len(device_cnns) = 2
    /\ from_device(device_cnns[1]) = to_device(device_cnns[2])
    /\ to_device(device_cnns[1]) = from_device(device_cnns[2])
    /\ from_device(device_cnns[1]) \in EffectiveDevices(tlast.cls)

\* C18: the table get_absolute_single_connections returns holds, for every
\* effective device D and every absolute connection c of D with a device E,
\* c.get_singles() under [D][node of c at D][E][node of c at E], and no entry
\* that does not come from such a connection.
C18_TableOfSingles ==
    (SinglesCollected /\ tlast.res = "ok") =>
        /\ \A d \in EffectiveDevices(tlast.cls) :
              \A i \in Held(d) :
                  /\ KeyOf(d, device_cnns[i]) \in DOMAIN tlast.val
                  /\ tlast.val[KeyOf(d, device_cnns[i])] = Connection_get_singles(device_cnns[i])
        /\ \A key \in DOMAIN tlast.val : DefinedBy(tlast.cls, key) # {}

\* a table for inherited devices with two connections, one of them with two
\* kinds and with different node names on its two sides
C18_Witness ==
    /\ SinglesCollected
    /\ tlast.res = "ok"
    /\ InnerDevices(tlast.cls) = {}
    /\ Len(device_cnns) = MaxConnections
    /\ Cardinality(DOMAIN tlast.val) = 2 * MaxConnections
    /\ \E i \in DOMAIN device_cnns :
          /\ from_node_name(device_cnns[i]) # to_node_name(device_cnns[i])
          /\ Cardinality(device_cnns[i].kinds) = 2
          /\ from_device(device_cnns[i]) \in EffectiveDevices(tlast.cls)

\* no connection is twice in the list
NoConnectionTwice(q) == \A i \in DOMAIN q, j \in DOMAIN q : q[i] = q[j] => i = j

\* how often the list holds the connection
Count(q, cnn) == Cardinality({i \in DOMAIN q : q[i] = cnn})

\* the connections that the devices of the set hold, and the ones that are
\* defined at them
HeldBy(devices) == {device_cnns[i] : i \in UNION {Held(d) : d \in devices}}
DefinedAt(devices) ==
    {device_cnns[i] : i \in {j \in DOMAIN device_cnns : from_device(device_cnns[j]) \in devices}}

\* get_all_abs_connections returns the absolute connections of the effective
\* devices, none of them twice
AbsConnectionsOfEffectiveDevices ==
    tlast.op = "get_all_abs_connections" =>
        /\ tlast.res = "ok"
        /\ SeqToSet(tlast.val) = HeldBy(EffectiveDevices(tlast.cls))
        /\ NoConnectionTwice(tlast.val)

FeatureClasses == {<<"Feature", i>> : i \in 1..MaxFeatures}
FeatureItself == <<"Feature", 0>>
NoFeatureType == <<"type", 0>>
NoType == <<"object", 0>>
LookupArgs == FeatureClasses \cup {FeatureItself, NoFeatureType, NoType}

\* lines 35-41: what the constructor does with related_cls
FeatureController_init(related_cls) ==
    IF related_cls = NoType THEN "TypeError"
    ELSE IF related_cls[1] # "Feature" THEN "TypeError"
    ELSE IF related_cls = FeatureItself THEN "TypeError"
    ELSE "ok"

\* a controller is created for every lookup
not_cached_always(related_cls) == TRUE

\* line 61: FeatureController._items.get(related_cls) is None
not_cached(related_cls) == related_cls \notin DOMAIN items

\* the controllers more than the feature classes that can have one
MaxControllers == MaxFeatures + 1

\* lines 61-65
get_for(related_cls) ==
    IF not_cached(related_cls)
    THEN IF FeatureController_init(related_cls) # "ok"
         THEN /\ glast' = [related_cls |-> related_cls,
                           res |-> FeatureController_init(related_cls), ret |-> 0]
              /\ UNCHANGED <<items, created>>
         ELSE /\ created' = created + 1
              /\ items' = [c \in DOMAIN items \cup {related_cls} |->
                              IF c = related_cls THEN created + 1 ELSE items[c]]
              /\ glast' = [related_cls |-> related_cls, res |-> "ok", ret |-> created + 1]
    ELSE /\ glast' = [related_cls |-> related_cls, res |-> "ok", ret |-> items[related_cls]]
         /\ UNCHANGED <<items, created>>

InitCache ==
    /\ MetaIdle
    /\ CompareIdle
    /\ InhIdle
    /\ MethIdle
    /\ VDevIdle
    /\ AbsIdle
    /\ ExistIdle
    /\ TopoIdle
    /\ CacheIdle
    /\ DetIdle
    /\ InnerIdle
    /\ ElimIdle
    /\ RaceIdle
    /\ CoveredIdle

\* FeatureController.get_for(related_cls)
GetFor(related_cls) ==
    /\ created < MaxControllers
    /\ get_for(related_cls)
    /\ requested' = requested \cup {related_cls}
    /\ UNCHANGED exceptCache

NextCache == \E related_cls \in LookupArgs : GetFor(related_cls)

SpecCache == InitCache /\ [][NextCache]_vars

\* the cache holds one controller for every feature class that was requested
\* and for nothing else, a controller of its own for every class, and the last
\* lookup of a feature class returned the controller the cache holds for it
OneControllerPerRequestedClass ==
    /\ DOMAIN items = requested \cap FeatureClasses
    /\ \A c \in DOMAIN items, d \in DOMAIN items : items[c] = items[d] => c = d
    /\ created = Cardinality(DOMAIN items)
    /\ glast.res = "ok" => (glast.related_cls \in DOMAIN items
                              /\ glast.ret = items[glast.related_cls])
    /\ glast.res \notin {"ok", "none"} => glast.related_cls \notin FeatureClasses

\* a lookup creates the controller of a class if the class has none, keeps
\* every controller the cache holds, and changes nothing if it is rejected
ControllersKept ==
    /\ \A c \in DOMAIN items : c \in DOMAIN items' /\ items'[c] = items[c]
    /\ glast'.res = "ok" =>
          /\ glast'.ret = items'[glast'.related_cls]
          /\ glast'.related_cls \in DOMAIN items => glast'.ret = items[glast'.related_cls]
          /\ DOMAIN items' = DOMAIN items \cup {glast'.related_cls}
    /\ glast'.res # "ok" => items' = items

\* C20: after any sequence of get_for calls the cache holds exactly one
\* controller per requested feature class: it is created on the first lookup
\* of the class, every later lookup returns that same instance, it is never
\* replaced or removed, and a rejected lookup (no feature class, or Feature
\* itself) leaves the cache unchanged.
C20_OneControllerPerClass == []OneControllerPerRequestedClass /\ [][ControllersKept]_vars

\* every feature class has its controller, lookups were rejected, and the last
\* lookup returned the controller that was created first
C20_Witness ==
    /\ DOMAIN items = FeatureClasses
    /\ requested = LookupArgs
    /\ glast.res = "ok"
    /\ glast.ret = 1

(***************************************************************************)
(* The endpoint reversal law and the symmetry of equal_with                *)
(***************************************************************************)
EqualWithCalled == clast.op = "equal_with"

\* b has the endpoints of a in the opposite order, and the two ends differ
EndpointsSwapped(a, b) ==
    /\ AllPresent(a)
    /\ b.from_device = a.to_device /\ b.from_node_name = a.to_node_name
    /\ b.to_device = a.from_device /\ b.to_node_name = a.from_node_name
    /\ <<a.from_device, a.from_node_name>> # <<a.to_device, a.to_node_name>>

\* b has the endpoints of a in the same order
EndpointsSame(a, b) ==
    /\ AllPresent(a)
    /\ b.from_device = a.from_device /\ b.from_node_name = a.from_node_name
    /\ b.to_device = a.to_device /\ b.to_node_name = a.to_node_name

\* C21: endpoint reversal law of equal_with - a bidirectional metadata with
\* endpoints (X@p, Y@q) is equal_with the bidirectional metadata with the
\* swapped endpoints (Y@q, X@p); it is not equal_with the unidirectional
\* metadata (X@p, Y@q), in either order of the call; and two unidirectional
\* metadata with swapped endpoints are not equal_with each other.  X@p and
\* Y@q are two different ends.
C21_EndpointReversalLaw ==
    EqualWithCalled =>
        LET a == pair.self
            b == pair.other
        IN  /\ (a.bidirectional /\ b.bidirectional /\ EndpointsSwapped(a, b))
                    => clast.res = "True"
            /\ (a.bidirectional # b.bidirectional /\ EndpointsSame(a, b))
                    => clast.res = "False"
            /\ (~a.bidirectional /\ ~b.bidirectional /\ EndpointsSwapped(a, b))
                    => clast.res = "False"

\* equal_with was called on two bidirectional metadata between two different
\* devices with swapped endpoints, and returned True
C21_Witness ==
    /\ EqualWithCalled /\ clast.res = "True"
    /\ pair.self.bidirectional /\ pair.other.bidirectional
    /\ EndpointsSwapped(pair.self, pair.other)
    /\ pair.self.from_device # pair.self.to_device


\* C22: equal_with is symmetric and implies containment both ways - whenever
\* a.equal_with(b) returned True, b.equal_with(a), a.contained_in(b) and
\* b.contained_in(a) are True as well - and contained_in is reflexive:
\* c.contained_in(c) returns True for every metadata c, also for one without
\* endpoints.
C22_EqualSymmetricContainedReflexive ==
    /\ (EqualWithCalled /\ clast.res = "True") =>
            /\ equal_with(pair.other, pair.self)
            /\ contained_in(pair.self, pair.other)
            /\ contained_in(pair.other, pair.self)
    /\ (clast.op = "contained_in" /\ pair.self = pair.other) => clast.res = "True"

\* c.contained_in(c) was called for a unidirectional metadata c without
\* endpoints and returned True
C22_Witness ==
    /\ ContainedInHolds
    /\ pair.self = pair.other
    /\ AllAbsent(pair.self) /\ ~pair.self.bidirectional


(***************************************************************************)
(* Repeated resolution.  The feature classes are registered with their     *)
(* method variation tables; then get_method_variation is called on the     *)
(* most derived class, other get_for calls are made in between, and one of *)
(* the calls is noted with its outcome to compare the later calls with it. *)
(***************************************************************************)
MaxResolvedFeatures == 2

\* the key of a feature class in FeatureController._items
FeatureClassOf(cls) == <<"Feature", cls>>

\* FeatureController._items after the get_for calls for the classes of the
\* sequence, one after the other (lines 61-63)
RECURSIVE items_after(_, _)
items_after(its, fetched) ==
    IF fetched = <<>> THEN its
    ELSE LET related_cls == FeatureClassOf(Head(fetched))
         IN  items_after(
                 IF related_cls \notin DOMAIN its
                 THEN [c \in DOMAIN its \cup {related_cls} |->
                          IF c = related_cls THEN Cardinality(DOMAIN its) + 1 ELSE its[c]]
                 ELSE its,
                 Tail(fetched))

RECURSIVE fetched_controllers(_, _, _, _)
RECURSIVE fetched_in_parents(_, _, _, _)

\* lines 186-192: the bases whose controller the loop fetches with get_for,
\* and the controllers their calls fetch in turn
fetched_in_parents(bases, of_method_name, for_vdevice, with_connection) ==
    IF bases = <<>> THEN <<>>
    ELSE IF Head(bases) = Feature
    THEN fetched_in_parents(Tail(bases), of_method_name, for_vdevice, with_connection)
    ELSE <<Head(bases)>>
            \o fetched_controllers(Head(bases), of_method_name, for_vdevice, with_connection)
            \o (IF get_method_variation(Head(bases), of_method_name, for_vdevice,
                                        with_connection, TRUE).res # "None"
                THEN <<>>
                ELSE fetched_in_parents(Tail(bases), of_method_name, for_vdevice,
                                        with_connection))

\* the controllers a get_method_variation call fetches: none unless the class
\* has the method and no variation of its own is possible
fetched_controllers(cls, of_method_name, for_vdevice, with_connection) ==
    IF ~features[cls].table.defined
        \/ of_method_name \notin DOMAIN features[cls].table.methods
    THEN <<>>
    ELSE IF Len(all_possible_method_variations(cls, of_method_name, for_vdevice,
                                               with_connection)) # 0
    THEN <<>>
    ELSE fetched_in_parents(features[cls].bases, of_method_name, for_vdevice,
                            with_connection)

\* line 215 would delete from the registered dict: the implementations that
\* the elimination removes are lost
registered_after_deletion(cls, of_method_name, for_vdevice, with_connection) ==
    IF ~features[cls].table.defined
        \/ of_method_name \notin DOMAIN features[cls].table.methods
    THEN features
    ELSE LET variations == all_possible_method_variations(cls, of_method_name,
                                                          for_vdevice, with_connection)
             left == IF Len(variations) > 1 THEN eliminate(variations) ELSE variations
             gone == {variations[i].impl[2] : i \in DOMAIN variations}
                        \ {left[i].impl[2] : i \in DOMAIN left}
             impls == features[cls].table.methods[of_method_name]
             kept == SelectSeq([i \in DOMAIN impls |-> i], LAMBDA i : i \notin gone)
         IN  [features EXCEPT ![cls].table.methods[of_method_name] =
                                  [j \in DOMAIN kept |-> impls[kept[j]]]]

\* lines 165-181 and 215: the candidates are collected in a dict of the call,
\* and it is this dict the elimination deletes from; _for_vdevice is only read
registered_after(cls, of_method_name, for_vdevice, with_connection) == features

InitResolve ==
    /\ MetaIdle
    /\ CompareIdle
    /\ InhIdle
    /\ MethIdle
    /\ VDevIdle
    /\ AbsIdle
    /\ ExistIdle
    /\ TopoIdle
    /\ CacheIdle
    /\ DetIdle
    /\ InnerIdle
    /\ ElimIdle
    /\ RaceIdle
    /\ CoveredIdle

\* a feature class is defined; its decorators store the table in the
\* controller of the class (lines 113-118), which get_for creates
RegisterFeature(bases, table) ==
    /\ features' = Append(features, [bases |-> bases, table |-> table])
    /\ items' = IF table.defined THEN items_after(items, <<Len(features) + 1>>) ELSE items
    /\ created' = Cardinality(DOMAIN items')
    /\ UNCHANGED <<flast, requested, glast, pinned, exceptDet>>

\* FeatureController.get_for(cls).get_method_variation(...)
ResolveMethodVariation(cls, of_method_name, for_vdevice, with_connection, ignore_no_findings) ==
    /\ flast' = [cls |-> cls, for_vdevice |-> for_vdevice,
                 with_connection |-> with_connection,
                 ignore_no_findings |-> ignore_no_findings]
                @@ get_method_variation(cls, of_method_name, for_vdevice,
                                        with_connection, ignore_no_findings)
    /\ features' = registered_after(cls, of_method_name, for_vdevice, with_connection)
    /\ items' = items_after(items, <<cls>> \o fetched_controllers(cls, of_method_name,
                                                                for_vdevice, with_connection))
    /\ created' = Cardinality(DOMAIN items')
    /\ pinned' = IF pinned = NoNote THEN pinned ELSE [pinned EXCEPT !.followed = TRUE]
    /\ UNCHANGED <<requested, glast, exceptDet>>

\* another FeatureController.get_for call (lines 61-65): the cache after it
GetForBetween(cls) ==
    /\ items' = items_after(items, <<cls>>)
    /\ created' = Cardinality(DOMAIN items')
    /\ UNCHANGED <<features, flast, requested, glast, pinned, exceptDet>>

\* the last call and its outcome are noted; the VDevices are interchangeable,
\* so it is a call for the first VDevice that is noted
NoteResolution ==
    /\ pinned = NoNote
    /\ flast # NoResolution
    /\ flast.for_vdevice = 1
    /\ pinned' = [call |-> flast, followed |-> FALSE, reordered |-> 0]
    /\ UNCHANGED <<features, flast, cacheVars, exceptDet>>

NextResolve ==
    \/ /\ Len(features) < MaxResolvedFeatures
       /\ flast = NoResolution
       /\ \E bases \in FeatureLegalBases, table \in LegalTables : RegisterFeature(bases, table)
    \/ /\ features # <<>>
       /\ \E m \in MethodNames, v \in VDevices, w \in WithConnections, ign \in BOOLEAN :
              ResolveMethodVariation(Len(features), m, v, w, ign)
    \/ /\ flast # NoResolution
       /\ \E cls \in LoadedFeatures : GetForBetween(cls)
    \/ NoteResolution

SpecResolve == InitResolve /\ [][NextResolve]_vars


SameQuery(a, b) ==
    /\ a.cls = b.cls
    /\ a.for_vdevice = b.for_vdevice
    /\ a.with_connection = b.with_connection
    /\ a.ignore_no_findings = b.ignore_no_findings

MaxVFeatures == 2

InitInner ==
    /\ MetaIdle
    /\ CompareIdle
    /\ InhIdle
    /\ MethIdle
    /\ VDevIdle
    /\ AbsIdle
    /\ ExistIdle
    /\ TopoIdle
    /\ CacheIdle
    /\ DetIdle
    /\ InnerIdle
    /\ ElimIdle
    /\ RaceIdle
    /\ CoveredIdle

LoadInnerVFeature(bases, vdevs) ==
    /\ vfeatures' = Append(vfeatures, [bases |-> bases, vdevs |-> vdevs])
    /\ UNCHANGED <<vdlast, ilast, exceptInner>>

GetInnerVDeviceClasses(cls) ==
    /\ ilast' = [op |-> "get_inner_vdevice_classes", cls |-> cls,
                 val |-> get_inner_vdevice_classes(cls)]
    /\ UNCHANGED <<vfeatures, vdlast, exceptInner>>

GetAbsInnerVDeviceClasses(cls) ==
    /\ ilast' = [op |-> "get_abs_inner_vdevice_classes", cls |-> cls,
                 val |-> get_abs_inner_vdevice_classes(cls)]
    /\ UNCHANGED <<vfeatures, vdlast, exceptInner>>

NextInner ==
    \/ /\ Len(vfeatures) < MaxVFeatures
       /\ ilast.op = "none"
       /\ \E bases \in VFeatureLegalBases, vdevs \in LegalVDeviceBodies :
              LoadInnerVFeature(bases, vdevs)
    \/ /\ vfeatures # <<>>
       /\ GetInnerVDeviceClasses(Len(vfeatures))
    \/ /\ vfeatures # <<>>
       /\ GetAbsInnerVDeviceClasses(Len(vfeatures))

SpecInner == InitInner /\ [][NextInner]_vars

\* the VDevice classes declared directly inside the feature class
DeclaredInside(cls) == {d \in DeclaredVDevices : d[1] = cls}

\* C24: get_inner_vdevice_classes returns only the VDevice classes declared
\* directly inside the related feature class - the empty list when the class
\* declares none - and never VDevices of a parent feature.
C24_OnlyOwnVDevices ==
    ilast.op = "get_inner_vdevice_classes" =>
        SeqToSet(ilast.val) = DeclaredInside(ilast.cls)


(***************************************************************************)
(* The candidate that get_method_variation returns                          *)
(***************************************************************************)
\* the candidates of the class the returned implementation belongs to (the
\* called class, or the parent the search found it in)
CandidatesOfReturned ==
    all_possible_method_variations(flast.impl[1], "read", flast.for_vdevice,
                                   flast.with_connection)

\* C25: whenever get_method_variation returns an implementation chosen among
\* two or more candidates of a class, the returned candidate is the outermost
\* one: the combined connection of every other candidate is equal to or
\* contained in the combined connection of the returned candidate.
C25_ReturnedIsOutermost ==
    (flast.res = "impl" /\ Len(CandidatesOfReturned) >= 2) =>
        \E j \in DOMAIN CandidatesOfReturned :
            /\ CandidatesOfReturned[j].impl = flast.impl
            /\ \A i \in DOMAIN CandidatesOfReturned :
                  \/ Connection_equal(CandidatesOfReturned[i].cnn,
                                      CandidatesOfReturned[j].cnn)
                  \/ Connection_contained_in(CandidatesOfReturned[i].cnn,
                                             CandidatesOfReturned[j].cnn, FALSE)

\* an implementation was returned although it was registered first, and the
\* connection of the other candidate is contained in its connection without
\* being equal to it
C25_Witness ==
    /\ flast.res = "impl" /\ flast.impl = <<flast.cls, 1>>
    /\ Len(CandidatesOfReturned) = 2
    /\ ~Connection_equal(CandidatesOfReturned[2].cnn, CandidatesOfReturned[1].cnn)
    /\ Connection_contained_in(CandidatesOfReturned[2].cnn, CandidatesOfReturned[1].cnn, FALSE)


(***************************************************************************)
(* The order of registration.  The feature classes are loaded with their   *)
(* tables and get_method_variation is called; then one class is taken with *)
(* the same implementations registered in the opposite order, the last     *)
(* call on the first table is noted, and the calls go on with the second.  *)
(***************************************************************************)
\* a dict with the same items inserted in the opposite order
reversed_items(impls) == [i \in DOMAIN impls |-> impls[Len(impls) + 1 - i]]

\* the position that an implementation of the class has in the second table
InSecondTable(cls, impl) ==
    IF impl[1] = cls
    THEN <<cls, Len(features[cls].table.methods["read"]) + 1 - impl[2]>>
    ELSE impl

InitOrder ==
    /\ MetaIdle
    /\ CompareIdle
    /\ InhIdle
    /\ MethIdle
    /\ VDevIdle
    /\ AbsIdle
    /\ ExistIdle
    /\ TopoIdle
    /\ CacheIdle
    /\ DetIdle
    /\ InnerIdle
    /\ ElimIdle
    /\ RaceIdle
    /\ CoveredIdle

\* set_method_based_for_vdevice with the dict of the other insertion order;
\* the VDevices are interchangeable, so a call for the first one is noted
RegisterInOtherOrder(cls) ==
    /\ pinned = NoNote
    /\ flast # NoResolution
    /\ flast.for_vdevice = 1
    /\ features[cls].table.defined
    /\ "read" \in DOMAIN features[cls].table.methods
    /\ Len(features[cls].table.methods["read"]) >= 2
    /\ features' = [features EXCEPT ![cls].table.methods["read"] = reversed_items(@)]
    /\ pinned' = [call |-> flast, followed |-> FALSE, reordered |-> cls]
    /\ flast' = NoResolution
    /\ UNCHANGED <<cacheVars, exceptDet>>

NextOrder ==
    \/ /\ Len(features) < MaxResolvedFeatures
       /\ flast = NoResolution
       /\ pinned = NoNote
       /\ \E bases \in FeatureLegalBases, table \in LegalTables : LoadFeature(bases, table)
    \/ /\ features # <<>>
       /\ \E m \in MethodNames, v \in VDevices, w \in WithConnections, ign \in BOOLEAN :
              GetMethodVariation(Len(features), m, v, w, ign)
    \/ \E cls \in LoadedFeatures : RegisterInOtherOrder(cls)

SpecOrder == InitOrder /\ [][NextOrder]_vars

\* C26: the outcome of get_method_variation depends only on the registered
\* bindings, not on the order of their registration - for two tables with the
\* same bindings in different insertion order the same query returns the same
\* implementation or raises the same error, also when two candidates have
\* equal combined connections.
C26_OrderIndependent ==
    (pinned.reordered # 0 /\ SameQuery(flast, pinned.call)) =>
        /\ flast.res = pinned.call.res
        /\ flast.why = pinned.call.why
        /\ flast.impl = InSecondTable(pinned.reordered, pinned.call.impl)


(***************************************************************************)
(* The order of the rules of validate_inheritance                          *)
(***************************************************************************)
\* the last call was made on a class with a non-root parent that declares a
\* device for every device name of the parent, one of them without being a
\* subclass of the parent device of its name
NamedButNotDerived ==
    /\ InhValidated
    /\ HasParentWithDevices(vlast.cls)
    /\ \A p \in AbsParentDevices(vlast.cls) : \E d \in InnerDevices(vlast.cls) : d[2] = p[2]
    /\ \E p \in AbsParentDevices(vlast.cls) : \E d \in InnerDevices(vlast.cls) :
          d[2] = p[2] /\ ~IsSubDevice(d, p)

\* C27: validate_inheritance evaluates the rule of names and lineage of the
\* devices before the rule of coverage - when a child class declares a device
\* for every device name of the parent, but one of them does not inherit from
\* the parent device of its name, the call fails with an error of the device
\* rule (the DeviceOverwritingError 'has the same name ... should also inherit
\* from it', or the error of a device that is examined before), never with
\* the error of the missing coverage.
C27_LineageBeforeCoverage ==
    NamedButNotDerived =>
        /\ vlast.res \in {"DeviceOverwritingError", "MultiInheritanceError"}
        /\ vlast.kind \in {"should_inherit", "should_have_same_name", "device"}


(***************************************************************************)
(* The elimination loop of get_method_variation, pass by pass.  The loop   *)
(* is entered with the dict of two or more candidates (lines 200-204);     *)
(* every step is one run of the body of the while loop, and the last step  *)
(* is the return or the raise of lines 221-226.                            *)
(***************************************************************************)
MaxCandidates == 3

\* the combined connections a candidate can have
CombinedConnections == {Template(S) : S \in SUBSET Kinds \ {{}}}

\* the dicts the loop can be entered with, as the sequences of their items
CandidateDicts ==
    UNION {{[i \in 1..n |-> [impl |-> <<1, i>>, cnn |-> f[i]]] :
                f \in [1..n -> CombinedConnections]} : n \in 2..MaxCandidates}

\* line 203: length_before = None, written as 0, which the length of the
\* dict never is
InitElim ==
    /\ MetaIdle
    /\ CompareIdle
    /\ InhIdle
    /\ MethIdle
    /\ VDevIdle
    /\ AbsIdle
    /\ ExistIdle
    /\ TopoIdle
    /\ CacheIdle
    /\ DetIdle
    /\ InnerIdle
    /\ RaceIdle
    /\ CoveredIdle
    /\ \E variations \in CandidateDicts :
          eloop = [pc |-> "while", variations |-> variations, n |-> Len(variations),
                   length_before |-> 0, passes |-> 0, out |-> [res |-> "none", why |-> "none", impl |-> <<0, 0>>]]

\* lines 204-219: one run of the body of the while loop
WhileBody ==
    /\ eloop.pc = "while"
    /\ eloop.length_before # Len(eloop.variations)
    /\ LET after == elimination_pass(eloop.variations)
       IN  eloop' = [eloop EXCEPT !.length_before = Len(eloop.variations),
                                  !.variations = after,
                                  !.passes = @ + 1,
                                  !.pc = IF Len(after) = 1 THEN "after" ELSE "while"]
    /\ UNCHANGED exceptElim

\* line 204: the condition of the while loop is false
WhileExit ==
    /\ eloop.pc = "while"
    /\ eloop.length_before = Len(eloop.variations)
    /\ eloop' = [eloop EXCEPT !.pc = "after"]
    /\ UNCHANGED exceptElim

\* lines 221-226
AfterLoop ==
    /\ eloop.pc = "after"
    /\ eloop' = [eloop EXCEPT !.pc = "done",
                              !.out = IF Len(eloop.variations) > 1
                                      THEN [res |-> "UnclearMethodVariationError",
                                            why |-> "more_than_one", impl |-> <<0, 0>>]
                                      ELSE [res |-> "impl", why |-> "none",
                                            impl |-> eloop.variations[1].impl]]
    /\ UNCHANGED exceptElim

NextElim == WhileBody \/ WhileExit \/ AfterLoop

\* the interpreter goes on with the next statement
SpecElim ==
    InitElim /\ [][NextElim]_vars
        /\ WF_vars(WhileBody) /\ WF_vars(WhileExit) /\ WF_vars(AfterLoop)

\* the passes made are not more than the candidates the loop was entered
\* with, a candidate is always left, and the call ends with one
\* implementation or with the ambiguity error
LoopBounded ==
    /\ eloop.passes <= eloop.n
    /\ eloop.passes + Len(eloop.variations) <= eloop.n + 1
    /\ Len(eloop.variations) >= 1
    /\ eloop.pc = "done" =>
          \/ eloop.out.res = "impl" /\ Len(eloop.variations) = 1
                /\ eloop.out.impl = eloop.variations[1].impl
          \/ eloop.out.res = "UnclearMethodVariationError" /\ Len(eloop.variations) > 1

\* a pass removes exactly one candidate or none, and a pass that follows
\* another one follows one that removed a candidate
PassRemovesOneOrStops ==
    eloop'.passes # eloop.passes =>
        /\ Len(eloop'.variations) \in {Len(eloop.variations), Len(eloop.variations) - 1}
        /\ \A i \in DOMAIN eloop'.variations :
              \E j \in DOMAIN eloop.variations : eloop'.variations[i] = eloop.variations[j]
        /\ eloop.passes > 0 => eloop.length_before = Len(eloop.variations) + 1


\* C28: the elimination loop terminates for every candidate set - each pass
\* removes exactly one candidate or leaves the set unchanged, and then the
\* loop stops; with n candidates there are at most n passes; the last
\* remaining candidate is never removed; and the call always ends by
\* returning one implementation or raising the ambiguity error.
C28_EliminationTerminates ==
    /\ []LoopBounded
    /\ [][PassRemovesOneOrStops]_vars
    /\ <>(eloop.pc = "done")

\* the loop was entered with three candidates, made two passes that removed
\* one candidate each, and the call returned the candidate that was left
C28_Witness ==
    /\ eloop.pc = "done"
    /\ eloop.n = MaxCandidates
    /\ eloop.passes = 2
    /\ eloop.out.res = "impl"


(***************************************************************************)
(* FeatureController.get_for with callers that run at the same time: every *)
(* step is one statement of one caller (lines 61, 62, 63 and 65); the      *)
(* interpreter can switch to the other caller between two statements.      *)
(***************************************************************************)
NumCallers == 2
Callers == 1..NumCallers

NotCalling == [pc |-> "idle", related_cls |-> FeatureItself, item |-> 0, ret |-> 0]
InProgress(t) == race.caller[t].pc \in {"check", "create", "store", "return"}

InitRace ==
    /\ MetaIdle
    /\ CompareIdle
    /\ InhIdle
    /\ MethIdle
    /\ VDevIdle
    /\ AbsIdle
    /\ ExistIdle
    /\ TopoIdle
    /\ CacheIdle
    /\ DetIdle
    /\ InnerIdle
    /\ ElimIdle
    /\ CoveredIdle
    /\ race = [caller |-> [t \in Callers |-> NotCalling], overlapped |-> FALSE]

\* a caller enters get_for(related_cls)
CallGetFor(t, related_cls) ==
    /\ ~InProgress(t)
    /\ race' = [caller |-> [race.caller EXCEPT ![t] =
                               [pc |-> "check", related_cls |-> related_cls,
                                item |-> 0, ret |-> 0]],
                overlapped |-> race.overlapped \/ \E u \in Callers \ {t} : InProgress(u)]
    /\ UNCHANGED <<cacheVars, exceptRace>>

\* line 61: if FeatureController._items.get(related_cls) is None
CheckCached(t) ==
    /\ race.caller[t].pc = "check"
    /\ race' = [race EXCEPT !.caller[t].pc =
                   IF not_cached(race.caller[t].related_cls) THEN "create" ELSE "return"]
    /\ UNCHANGED <<cacheVars, exceptRace>>

\* line 62: item = FeatureController(related_cls, ...)
CreateController(t) ==
    /\ race.caller[t].pc = "create"
    /\ created < MaxControllers
    /\ created' = created + 1
    /\ race' = [race EXCEPT !.caller[t].pc = "store", !.caller[t].item = created + 1]
    /\ UNCHANGED <<items, requested, glast, exceptRace>>

\* line 63: FeatureController._items[related_cls] = item
StoreController(t) ==
    /\ race.caller[t].pc = "store"
    /\ items' = [c \in DOMAIN items \cup {race.caller[t].related_cls} |->
                    IF c = race.caller[t].related_cls THEN race.caller[t].item
                    ELSE items[c]]
    /\ race' = [race EXCEPT !.caller[t].pc = "return"]
    /\ UNCHANGED <<created, requested, glast, exceptRace>>

\* line 65: return FeatureController._items.get(related_cls)
ReturnController(t) ==
    /\ race.caller[t].pc = "return"
    /\ race' = [race EXCEPT !.caller[t].pc = "done",
                            !.caller[t].ret = items[race.caller[t].related_cls]]
    /\ UNCHANGED <<cacheVars, exceptRace>>

NextRace ==
    \E t \in Callers :
        \/ \E related_cls \in FeatureClasses : CallGetFor(t, related_cls)
        \/ CheckCached(t)
        \/ CreateController(t)
        \/ StoreController(t)
        \/ ReturnController(t)

SpecRace == InitRace /\ [][NextRace]_vars

\* two callers have returned from get_for for the same class with different
\* controllers
DifferentControllers ==
    \E t, u \in Callers :
        /\ race.caller[t].pc = "done" /\ race.caller[u].pc = "done"
        /\ race.caller[t].related_cls = race.caller[u].related_cls
        /\ race.caller[t].ret # race.caller[u].ret

\* C29: the one-controller-per-class guarantee of get_for relies on
\* serialized access - as long as no call was entered while another one was
\* in progress, one controller was created for every class in the cache and
\* no two callers have received different controllers for a class; callers
\* that run get_for for the same class at the same time can receive
\* different controllers.
C29_SerializedOrInterleaved ==
    ~race.overlapped =>
        /\ ~DifferentControllers
        /\ created = Cardinality(DOMAIN items) + Cardinality({t \in Callers :
                                                    race.caller[t].pc = "store"})

\* two callers ran get_for for the same class at the same time, and they have
\* received different controllers
C29_Witness ==
    /\ race.overlapped
    /\ DifferentControllers


(***************************************************************************)
(* ScenarioExecutor.get_covered_by_dict.  The scenario class of the        *)
(* executor is the last class of a chain of scenario classes; _covered_by  *)
(* is a dict whose keys are classes of the chain and test methods defined  *)
(* in classes of the chain, as the sequence of its items.                  *)
(***************************************************************************)
MaxScenarioLevels == 2
MaxCoveredByItems == 2
TestMethodNames == {"test_a", "test_b"}
\* the lists of covering elements a decorator can give
CoveredByLists == {"by_x", "by_y"}

ScenarioKey(cls) == [kind |-> "class", cls |-> cls, name |-> "none"]
MethodKey(cls, name) == [kind |-> "method", cls |-> cls, name |-> name]
\* line 190: getattr(self.base_scenario_class, cur_function_name)
OwnMethod(name) == [kind |-> "method", cls |-> 0, name |-> name]

CoveredByKeys ==
    {ScenarioKey(cls) : cls \in 1..MaxScenarioLevels}
      \cup {MethodKey(cls, name) : cls \in 1..MaxScenarioLevels, name \in TestMethodNames}

\* the dicts _covered_by can be: no key twice
CoveredByDicts ==
    UNION {{d \in [1..n -> [key : CoveredByKeys, val : CoveredByLists]] :
               \A i, j \in 1..n : i # j => d[i].key # d[j].key} : n \in 0..MaxCoveredByItems}

\* lines 144-154: the first candidate that is a subclass of every candidate
determine_most_inherited_class(class_list) ==
    LET valid == {i \in DOMAIN class_list :
                     \A j \in DOMAIN class_list : class_list[i] >= class_list[j]}
    IN  IF valid = {} THEN 0
        ELSE class_list[CHOOSE i \in valid : \A j \in valid : i <= j]

\* line 166: issubclass(cur_key, Scenario); a function is no class, and
\* issubclass raises TypeError for it
issubclass_of_Scenario(cur_key) ==
    IF cur_key.kind = "class" THEN "True" ELSE "TypeError"

\* lines 165-174: the loop over the keys; scenario_classes collects the class
\* keys.  The first key that is a test method ends the call at line 166, so
\* lines 169-173 (function_name_mapping) and 183-191 (the loop over the method
\* names) are reached with no key and add nothing to the result.
RECURSIVE collect_keys(_, _)
collect_keys(keys, scenario_classes) ==
    IF keys = <<>> THEN [res |-> "ok", scenario_classes |-> scenario_classes]
    ELSE IF issubclass_of_Scenario(Head(keys)) = "TypeError"
    THEN [res |-> "TypeError", scenario_classes |-> scenario_classes]
    ELSE collect_keys(Tail(keys), Append(scenario_classes, Head(keys).cls))

\* self.base_scenario_class._covered_by[key]
covered_by_of(covered_by, key) ==
    (CHOOSE i \in DOMAIN covered_by : covered_by[i].key = key)

get_covered_by_dict ==
    IF ~cov.has THEN [res |-> "ok", val |-> <<>>]
    ELSE LET collected == collect_keys([i \in DOMAIN cov.covered_by |-> cov.covered_by[i].key],
                                       <<>>)
         IN  IF collected.res # "ok" THEN [res |-> collected.res, val |-> <<>>]
             ELSE IF Len(collected.scenario_classes) > 0
             THEN LET most_inherited_class ==
                          determine_most_inherited_class(collected.scenario_classes)
                  IN  [res |-> "ok",
                       val |-> <<[key |-> ScenarioKey(most_inherited_class),
                                  val |-> cov.covered_by[covered_by_of(
                                              cov.covered_by,
                                              ScenarioKey(most_inherited_class))].val]>>]
             ELSE [res |-> "ok", val |-> <<>>]

InitCovered ==
    /\ MetaIdle
    /\ CompareIdle
    /\ InhIdle
    /\ MethIdle
    /\ VDevIdle
    /\ AbsIdle
    /\ ExistIdle
    /\ TopoIdle
    /\ CacheIdle
    /\ DetIdle
    /\ InnerIdle
    /\ ElimIdle
    /\ RaceIdle
    /\ \E has \in BOOLEAN : \E d \in CoveredByDicts :
          /\ (~has => d = <<>>)
          /\ cov = [has |-> has, covered_by |-> d, res |-> "none", val |-> <<>>]

GetCoveredByDict ==
    /\ cov' = [cov EXCEPT !.res = get_covered_by_dict.res, !.val = get_covered_by_dict.val]
    /\ UNCHANGED exceptCovered

NextCovered == GetCoveredByDict

SpecCovered == InitCovered /\ [][NextCovered]_vars

\* the items of _covered_by for test methods of the name, and for classes
MethodItems(name) ==
    {i \in DOMAIN cov.covered_by :
        cov.covered_by[i].key.kind = "method" /\ cov.covered_by[i].key.name = name}
ClassItems == {i \in DOMAIN cov.covered_by : cov.covered_by[i].key.kind = "class"}
\* the item of the set whose key belongs to the most derived class
MostDerived(S) == CHOOSE i \in S : \A j \in S : cov.covered_by[i].key.cls >= cov.covered_by[j].key.cls

\* C30: get_covered_by_dict returns the resolved mapping and does not fail -
\* for every test method name with method-level definitions along the chain
\* the result has one entry, keyed by the scenario's own method of that name,
\* whose value is the list given for the most derived defining class; for
\* class-level definitions it has the entry of the most derived class.
C30_CoveredByResolved ==
    cov.res # "none" =>
        /\ cov.res = "ok"
        /\ \A name \in TestMethodNames :
              MethodItems(name) # {} =>
                  /\ \E e \in DOMAIN cov.val :
                        /\ cov.val[e].key = OwnMethod(name)
                        /\ cov.val[e].val = cov.covered_by[MostDerived(MethodItems(name))].val
                  /\ Cardinality({e \in DOMAIN cov.val : cov.val[e].key = OwnMethod(name)}) = 1
        /\ ClassItems # {} =>
              \E e \in DOMAIN cov.val :
                  cov.val[e] = cov.covered_by[MostDerived(ClassItems)]

============================================================================
